---- MODULE Spec2Model ----
(***************************************************************************)
(* DCF valuation engine (03_normalization.js), sensitivity tables          *)
(* (10a_sensitivity.js) and the scenario builder's tornado                 *)
(* (07_assumptions_panel.js), as a state machine over the global `state`   *)
(* object of 01_skeleton.js.                                               *)
(*                                                                         *)
(* JavaScript numbers are modelled as decimal floating point with a        *)
(* four-digit significand and an unbounded exponent: every arithmetic      *)
(* operation rounds its exact result to four significant digits (half      *)
(* away from zero), as an IEEE double rounds to 53 bits.  NaN, null and    *)
(* undefined are values of their own; null converts to 0 and undefined to  *)
(* NaN in arithmetic, as ToNumber does.  +-Infinity is not represented:    *)
(* on the inputs enumerated here no divisor is zero.                       *)
(***************************************************************************)
EXTENDS Integers, Sequences, FiniteSets, TLC

\* ------------------------------------------------------------------------
\* JavaScript values and arithmetic
\* ------------------------------------------------------------------------

\* The number m * 10^e.  Canonical form: m = 0 and e = 0, or 1000 <= |m| <= 9999.
Num(m, e) == [k |-> "num", m |-> m, e |-> e]

NaN == [k |-> "nan", m |-> 0, e |-> 0]

Null == [k |-> "null", m |-> 0, e |-> 0]

Undefined == [k |-> "undefined", m |-> 0, e |-> 0]

Zero == Num(0, 0)

AbsInt(i) == IF i < 0 THEN -i ELSE i

SgnInt(i) == IF i < 0 THEN -1 ELSE IF i > 0 THEN 1 ELSE 0

Pow10(p) == <<1, 10, 100, 1000, 10000, 100000, 1000000, 10000000, 100000000, 1000000000>>[p + 1]

NumDigits(a) ==
  IF a < 10000
  THEN (IF a < 10 THEN 1 ELSE IF a < 100 THEN 2 ELSE IF a < 1000 THEN 3 ELSE 4)
  ELSE IF a < 10000000
  THEN (IF a < 100000 THEN 5 ELSE IF a < 1000000 THEN 6 ELSE 7)
  ELSE (IF a < 100000000 THEN 8 ELSE IF a < 1000000000 THEN 9 ELSE 10)

\* The rounded significand r (up to 10000) at exponent e, with sign s
RoundCarry(s, r, e) == IF r = 10000 THEN Num(s * 1000, e + 1) ELSE Num(s * r, e)

\* s * a * 10^e for a significand a > 0 of d digits, at four significant digits
NormDigits(s, a, e, d) ==
  IF d <= 4 THEN Num(s * a * Pow10(4 - d), e + d - 4)
  ELSE RoundCarry(s, (a + Pow10(d - 4) \div 2) \div Pow10(d - 4), e + d - 4)

\* Rounds the exact value m * 10^e to four significant digits.
Norm(m, e) ==
  IF m = 0 THEN Zero ELSE NormDigits(SgnInt(m), AbsInt(m), e, NumDigits(AbsInt(m)))

\* A number literal of the source, e.g. 0.8 is Lit(8, -1).
Lit(m, e) == Norm(m, e)

One == Lit(1, 0)

\* ToNumber: null -> 0, undefined -> NaN.
ToNumber(v) == IF v.k = "null" THEN Zero ELSE IF v.k = "undefined" THEN NaN ELSE v

\* -a
Neg(a) ==
  IF ToNumber(a).k = "nan" THEN NaN ELSE Num(-ToNumber(a).m, ToNumber(a).e)

\* hi + lo for two nonzero numbers with hi.e >= lo.e
AddAligned(hi, lo) ==
  IF hi.e - lo.e > 5 THEN hi ELSE Norm(hi.m * Pow10(hi.e - lo.e) + lo.m, lo.e)

AddNum(x, y) ==
  IF x.k = "nan" \/ y.k = "nan" THEN NaN
  ELSE IF x.m = 0 THEN y
  ELSE IF y.m = 0 THEN x
  ELSE AddAligned(IF x.e >= y.e THEN x ELSE y, IF x.e >= y.e THEN y ELSE x)

\* a + b
Add(a, b) == AddNum(ToNumber(a), ToNumber(b))

\* a - b
Sub(a, b) == AddNum(ToNumber(a), Neg(b))

\* a * b
Mul(a, b) ==
  IF ToNumber(a).k = "nan" \/ ToNumber(b).k = "nan" THEN NaN
  ELSE Norm(ToNumber(a).m * ToNumber(b).m, ToNumber(a).e + ToNumber(b).e)

\* x / y for two numbers.  0/0 is NaN; a nonzero x over 0 would be an Infinity,
\* see the header
DivNum(x, y) ==
  IF x.k = "nan" \/ y.k = "nan" \/ y.m = 0 THEN NaN
  ELSE Norm(SgnInt(x.m) * SgnInt(y.m) * ((AbsInt(x.m) * 100000) \div AbsInt(y.m)),
            x.e - y.e - 5)

\* a / b
Div(a, b) == DivNum(ToNumber(a), ToNumber(b))

\* The comparisons, by the sign of the difference; with NaN they are all false
\* (the significand of NaN is 0).
Lt(a, b) == Sub(a, b).m < 0

Le(a, b) == Sub(a, b).m <= 0 /\ Sub(a, b).k = "num"

Gt(a, b) == Sub(b, a).m < 0

Ge(a, b) == Sub(b, a).m <= 0 /\ Sub(b, a).k = "num"

\* Math.abs
MathAbs(a) ==
  IF ToNumber(a).k = "nan" THEN NaN ELSE Num(AbsInt(ToNumber(a).m), ToNumber(a).e)

\* JavaScript truthiness of a number-or-null value
Truthy(v) == v.k = "num" /\ v.m # 0

\* v != null (loose): neither null nor undefined
NotNullish(v) == v.k # "null" /\ v.k # "undefined"

\* c * c <= a, for c within the integers whose square is below 2^31
SquareWithin(a, c) == c <= 46340 /\ c * c <= a

RECURSIVE ISqrtFrom(_, _, _)
\* The largest root of a that r grows to, a decimal digit at a time, the
\* digits from `step` downwards
ISqrtFrom(a, r, step) ==
  IF step = 0 THEN r
  ELSE ISqrtFrom(a,
                 r + step * (CHOOSE d \in 0..9 :
                               /\ SquareWithin(a, r + d * step)
                               /\ d = 9 \/ ~SquareWithin(a, r + (d + 1) * step)),
                 step \div 10)

\* Integer square root: the largest r with r * r <= a, for 0 <= a < 2^31.
ISqrt(a) == ISqrtFrom(a, 0, 10000)

\* Math.sqrt
Sqrt(a) ==
  IF ToNumber(a).k = "nan" \/ ToNumber(a).m < 0 THEN NaN
  ELSE Norm(ISqrt(ToNumber(a).m * Pow10(4 + (ToNumber(a).e % 2))),
            (ToNumber(a).e - 4 - (ToNumber(a).e % 2)) \div 2)

RECURSIVE PowInt(_, _)
\* Math.pow(a, i) for an integer i >= 0
PowInt(a, i) == IF i = 0 THEN One ELSE Mul(PowInt(a, i - 1), a)

\* Math.pow(a, i + 0.5) for an integer i >= 0
PowHalf(a, i) == Mul(PowInt(a, i), Sqrt(a))

\* x.toFixed(d) for a number x and d in 0..4
FixedNum(x, d) ==
  IF x.k = "nan" THEN [str |-> "NaN", units |-> 0, d |-> d]
  ELSE [str |-> "fixed", d |-> d,
        units |-> IF x.e + d >= 0 THEN x.m * Pow10(x.e + d)
                  ELSE IF x.e + d < -5 THEN 0
                  ELSE SgnInt(x.m) * ((AbsInt(x.m) + Pow10(-(x.e + d)) \div 2)
                                        \div Pow10(-(x.e + d)))]

\* Number.prototype.toFixed(d), for d in 0..4: the decimal string, held as the
\* count of 10^-d units it spells ("8.5" with d = 1 is 85), or "NaN".
ToFixed(v, d) == FixedNum(ToNumber(v), d)

\* The integer a loop bound `i < n` counts up to, for an integer-valued n
\* (null, undefined, NaN and n <= 0 give no iteration).
LoopCount(n) ==
  IF ToNumber(n).k = "nan" \/ ToNumber(n).m <= 0 THEN 0
  ELSE IF ToNumber(n).e >= 0 THEN ToNumber(n).m * Pow10(ToNumber(n).e)
  ELSE ToNumber(n).m \div Pow10(-ToNumber(n).e)

\* ------------------------------------------------------------------------
\* The global state of 01_skeleton.js and the environment
\* ------------------------------------------------------------------------

VARIABLES
  inputs,         \* state.inputs
  historical,     \* state.historical
  dcf,            \* state.dcf
  clockYear,      \* new Date().getFullYear()
  screen,         \* "upload" while the upload screen shows, then "dashboard"
  fields,         \* the inp-<key> elements of the assumptions panel
  sliders,        \* the slider-<key> elements of the scenario builder
  scenarioBase,   \* _scenarioBasePrice and _scenarioBaseInputs
  learningState,  \* window.learningState
  tables,         \* the sensitivity tables drawn last
  tornado,        \* what computeTornado() returned last
  panel,          \* the content of the learning panel
  calls,          \* the engine calls of the handler that ran last
  recalcTimer,    \* _recalcTimer is pending
  probe,          \* a function called on its own: its arguments, locals and result
  timing          \* the timers by the millisecond, where time is followed

vars ==
  <<inputs, historical, dcf, clockYear, screen, fields, sliders, scenarioBase,
    learningState, tables, tornado, panel, calls, recalcTimer, probe, timing>>

InputKeys ==
  {"forecastYears", "revenueGrowth", "ebitMargin", "taxRate", "capexPct", "daPct",
   "nwcPct", "exitMultiple", "costOfEquity", "costOfDebt", "debtWeight",
   "equityWeight", "wacc", "terminalGrowth", "currentPrice", "sharesOutstanding",
   "netDebt", "minorityInterest", "preferredEquity", "cashAndEquiv"}

\* state.inputs = {}: every key reads undefined
EmptyInputs == [key \in InputKeys |-> Undefined]

\* The line items of LINE_ITEM_ALIASES the engine and its defaults read
MetricKeys ==
  {"revenue", "ebit", "capex", "depreciation", "changeInNWC", "currentAssets",
   "currentLiabilities", "evToEbitda", "sharesOutstanding", "minorityInterest",
   "preferredEquity", "cash", "totalDebt"}

\* The derived series the defaults read
DerivedKeys == {"revenueGrowth", "ebitMargin", "netDebt"}

\* --- Last non-null value in a series ---
RECURSIVE LastValueFrom(_, _)
LastValueFrom(series, i) ==
  IF i < 1 THEN Null
  ELSE IF series[i].k = "num" THEN series[i]
  ELSE LastValueFrom(series, i - 1)

lastValue(series) ==
  IF series.k # "arr" THEN Null ELSE LastValueFrom(series.items, Len(series.items))

\* An array literal
Arr(items) == [k |-> "arr", items |-> items]

\* !historicalData || !historicalData.metrics (normalizeData stores a metrics
\* object with every historical object, so the second test never decides)
NoMetrics(historicalData) == historicalData.k # "obj"

\* s.reduce((s, v) => s + v, 0)
RECURSIVE SumTo(_, _)
SumTo(s, i) == IF i = 0 THEN Zero ELSE Add(SumTo(s, i - 1), s[i])

\* --- IRR solver via bisection ---
\* One step of the reduce of npv: sum + cf / Math.pow(1 + rate, i), with the
\* power (1 + rate)^i carried along as a repeated product
IrrNpvTerm(acc, cf, base) ==
  [sum |-> Add(acc.sum, Div(cf, acc.pow)), pow |-> Mul(acc.pow, base)]

RECURSIVE IrrNpvTo(_, _, _)
IrrNpvTo(cashFlows, base, i) ==
  IF i = 0 THEN [sum |-> Zero, pow |-> One]
  ELSE IrrNpvTerm(IrrNpvTo(cashFlows, base, i - 1), cashFlows[i], base)

\* npv = rate => cashFlows.reduce((sum, cf, i) => sum + cf / Math.pow(1 + rate, i), 0)
IrrNpv(cashFlows, rate) == IrrNpvTo(cashFlows, Add(One, rate), Len(cashFlows)).sum

\* solveIRR's defaults: maxIter = 200, tol = 1e-7
IrrMaxIter == 200

IrrTol == Lit(1, -7)

IrrLo == Lit(-999, -3)

IrrHi == Lit(10, 0)

RECURSIVE IrrLoop(_, _, _, _, _)
\* The pass of the loop `for (i = 0; i < maxIter; i++)` with `left` passes to go:
\* mid = (lo + hi) / 2 and fMid = npv(mid); fLo is npv(lo), which the source
\* computes anew in each pass.  The body is a function of (lo, hi) alone, so
\* once a pass leaves the bracket as it found it every later pass computes the
\* same mid: the value is returned there.
IrrLoop(cashFlows, lo, fLo, hi, left) ==
  LET mid   == Div(Add(lo, hi), Lit(2, 0))
      fMid  == IrrNpv(cashFlows, mid)
      below == Lt(Mul(fLo, fMid), Zero)
  IN  IF Lt(MathAbs(fMid), IrrTol) \/ left = 1 \/ mid = (IF below THEN hi ELSE lo)
      THEN mid
      ELSE IrrLoop(cashFlows, IF below THEN lo ELSE mid, IF below THEN fLo ELSE fMid,
                   IF below THEN mid ELSE hi, left - 1)

solveIRR(cashFlows) ==
  IF Gt(Mul(IrrNpv(cashFlows, IrrLo), IrrNpv(cashFlows, IrrHi)), Zero) THEN Null
  ELSE IrrLoop(cashFlows, IrrLo, IrrNpv(cashFlows, IrrLo), IrrHi, IrrMaxIter)

\* ------------------------------------------------------------------------
\* calculateDCFPure (03_normalization.js)
\* ------------------------------------------------------------------------

\* The pass with D&A always estimated from capex, ignoring daPct
PureYearFromCapex(inp, prevRevenue) ==
  LET rev      == Mul(prevRevenue, Add(One, inp.revenueGrowth))
      ebit     == Mul(rev, inp.ebitMargin)
      nopat    == Mul(ebit, Sub(One, inp.taxRate))
      capex    == Mul(rev, inp.capexPct)
      da       == Mul(capex, Lit(8, -1))
      nwcDelta == Mul(Sub(rev, prevRevenue), inp.nwcPct)
      fcf      == Sub(Sub(Add(nopat, da), capex), nwcDelta)
  IN  [rev |-> rev, fcf |-> fcf]

\* One pass of the forecast loop of calculateDCFPure: the year's fcf and revenue.
PureYear(inp, prevRevenue) ==
  LET rev      == Mul(prevRevenue, Add(One, inp.revenueGrowth))
      ebit     == Mul(rev, inp.ebitMargin)
      nopat    == Mul(ebit, Sub(One, inp.taxRate))
      capex    == Mul(rev, inp.capexPct)
      da       == IF NotNullish(inp.daPct) THEN Mul(rev, inp.daPct)
                  ELSE Mul(capex, Lit(8, -1))
      nwcDelta == Mul(Sub(rev, prevRevenue), inp.nwcPct)
      fcf      == Sub(Sub(Add(nopat, da), capex), nwcDelta)
  IN  [rev |-> rev, fcf |-> fcf]

\* The rows the loop has pushed after i passes.
RECURSIVE PureRows(_, _, _)
PureRows(inp, baseRevenue, i) ==
  IF i = 0 THEN <<>>
  ELSE LET before == PureRows(inp, baseRevenue, i - 1)
           prev   == IF i = 1 THEN baseRevenue ELSE before[i - 1].rev
       IN  Append(before, PureYear(inp, prev))

\* arr[i] for a 0-based index i: undefined outside the array
At(arr, i) == IF i >= 0 /\ i < Len(arr) THEN arr[i + 1] ELSE Undefined

\* JavaScript's binary + on the last element of irrCashFlows
AddToLast(arr, v) == [j \in 1..Len(arr) |-> IF j = Len(arr) THEN Add(arr[j], v) ELSE arr[j]]

\* forecastFCF as the loop leaves it
PureForecastFCF(rows) == [i \in 1..Len(rows) |-> rows[i].fcf]

\* The object calculateDCFPure returns: the equity bridge, the implied price
\* and the IRR, from the discounted values
PureResult(inp, forecastFCF, terminalValue, npvFCF, pvTerminal) ==
  LET enterpriseValue == Add(npvFCF, pvTerminal)
      equityValue     == Add(Sub(Sub(Sub(enterpriseValue, inp.netDebt),
                                     IF Truthy(inp.preferredEquity)
                                     THEN inp.preferredEquity ELSE Zero),
                                 inp.minorityInterest),
                             inp.cashAndEquiv)
  IN  [valid |-> TRUE,
       enterpriseValue |-> enterpriseValue,
       equityValue |-> equityValue,
       impliedPrice |-> IF Truthy(inp.sharesOutstanding) /\ Gt(inp.sharesOutstanding, Zero)
                        THEN Div(equityValue, inp.sharesOutstanding) ELSE Null,
       irr |-> solveIRR(AddToLast(<<Neg(equityValue)>> \o forecastFCF, terminalValue)),
       pvTerminal |-> pvTerminal,
       terminalValue |-> terminalValue,
       npvFCF |-> npvFCF]

\* The terminal value and the present values of a forecast of n years
PureValuation(inp, n, forecastFCF) ==
  LET terminalValue == Div(Mul(At(forecastFCF, n - 1), Add(One, inp.terminalGrowth)),
                           Sub(inp.wacc, inp.terminalGrowth))
  IN  PureResult(inp, forecastFCF, terminalValue,
                 SumTo([i \in 1..n |-> Div(forecastFCF[i], PowHalf(Add(One, inp.wacc), i - 1))],
                       n),
                 Div(terminalValue, PowInt(Add(One, inp.wacc), n)))

calculateDCFPure(inp, historicalData) ==
  IF NoMetrics(historicalData) THEN [valid |-> FALSE]
  ELSE IF Le(inp.wacc, inp.terminalGrowth) THEN [valid |-> FALSE]
  ELSE IF ~Truthy(lastValue(historicalData.metrics.revenue)) THEN [valid |-> FALSE]
  ELSE PureValuation(inp, LoopCount(inp.forecastYears),
                     PureForecastFCF(PureRows(inp, lastValue(historicalData.metrics.revenue),
                                              LoopCount(inp.forecastYears))))

\* ------------------------------------------------------------------------
\* calculateDCF (03_normalization.js)
\* ------------------------------------------------------------------------

Digits == {"0", "1", "2", "3", "4", "5", "6", "7", "8", "9"}

DigitVal(c) == CHOOSE d \in 0..9 : <<"0", "1", "2", "3", "4", "5", "6", "7", "8", "9">>[d + 1] = c

\* String(last).match(/\d{4}/): the 1-based position of the first run of four
\* digits in the label (a sequence of characters), 0 when there is none.
MatchYear(label) ==
  LET hits == {i \in 1..(Len(label) - 3) : \A j \in 0..3 : label[i + j] \in Digits}
  IN  IF hits = {} THEN 0 ELSE CHOOSE i \in hits : \A j \in hits : i <= j

\* parseInt(match[0])
ParseYear(label, i) ==
  DigitVal(label[i]) * 1000 + DigitVal(label[i + 1]) * 100
    + DigitVal(label[i + 2]) * 10 + DigitVal(label[i + 3])

\* The base year always read from the clock
BaseYearFromClock(historicalData, year) == year

\* const baseYear = ... (the current year when no label gives one)
BaseYear(historicalData, year) ==
  IF Len(historicalData.years) > 0
  THEN LET last == historicalData.years[Len(historicalData.years)]
           at   == MatchYear(last)
       IN  IF at # 0 THEN ParseYear(last, at) ELSE year
  ELSE year

\* The pass with D&A always taken as 0.8 of capex
DcfYearDaOfCapex(inp, prevRevenue) ==
  LET rev      == Mul(prevRevenue, Add(One, inp.revenueGrowth))
      ebit     == Mul(rev, inp.ebitMargin)
      nopat    == Mul(ebit, Sub(One, inp.taxRate))
      capex    == Mul(rev, inp.capexPct)
      da       == Mul(capex, Lit(8, -1))
      nwcDelta == Mul(Sub(rev, prevRevenue), inp.nwcPct)
      fcf      == Sub(Sub(Add(nopat, da), capex), nwcDelta)
  IN  [rev |-> rev, ebit |-> ebit, nopat |-> nopat, capex |-> capex, da |-> da,
       nwcDelta |-> nwcDelta, fcf |-> fcf]

\* One pass of the forecast loop of calculateDCF.
DcfYear(inp, prevRevenue) ==
  LET rev      == Mul(prevRevenue, Add(One, inp.revenueGrowth))
      ebit     == Mul(rev, inp.ebitMargin)
      nopat    == Mul(ebit, Sub(One, inp.taxRate))
      capex    == Mul(rev, inp.capexPct)
      da       == IF NotNullish(inp.daPct) THEN Mul(rev, inp.daPct)
                  ELSE Mul(capex, Lit(8, -1))
      nwcDelta == Mul(Sub(rev, prevRevenue), inp.nwcPct)
      fcf      == Sub(Sub(Add(nopat, da), capex), nwcDelta)
  IN  [rev |-> rev, ebit |-> ebit, nopat |-> nopat, capex |-> capex, da |-> da,
       nwcDelta |-> nwcDelta, fcf |-> fcf]

RECURSIVE DcfRows(_, _, _)
DcfRows(inp, baseRevenue, i) ==
  IF i = 0 THEN <<>>
  ELSE LET before == DcfRows(inp, baseRevenue, i - 1)
           prev   == IF i = 1 THEN baseRevenue ELSE before[i - 1].rev
       IN  Append(before, DcfYear(inp, prev))

HistoricalNotLoaded == [text |-> "Historical data not loaded.", args |-> <<>>]

\* `WACC (${(inputs.wacc * 100).toFixed(1)}%) must exceed terminal growth rate
\* (${(inputs.terminalGrowth * 100).toFixed(1)}%).`
WaccMessage(inp) ==
  [text |-> "WACC (%) must exceed terminal growth rate (%).",
   args |-> <<ToFixed(Mul(inp.wacc, Lit(100, 0)), 1),
              ToFixed(Mul(inp.terminalGrowth, Lit(100, 0)), 1)>>]

NoBaseRevenue == [text |-> "No base revenue found.", args |-> <<>>]

\* series.slice(0, histYears.length - 1)
SliceHistorical(series, histYears) ==
  IF series.k # "arr" THEN <<>>
  ELSE SubSeq(series.items, 1, IF Len(series.items) < Len(histYears) - 1
                               THEN Len(series.items) ELSE Len(histYears) - 1)

\* The equity bridge without the preferred equity
DcfEquityValueLessPreferred(inp, enterpriseValue) ==
  Add(Sub(Sub(enterpriseValue, inp.netDebt), inp.minorityInterest), inp.cashAndEquiv)

\* The equity bridge of calculateDCF
DcfEquityValue(inp, enterpriseValue) ==
  Add(Sub(Sub(Sub(enterpriseValue, inp.netDebt),
              IF Truthy(inp.preferredEquity) THEN inp.preferredEquity ELSE Zero),
          inp.minorityInterest),
      inp.cashAndEquiv)

\* The validation with `<` where the source has `<=`
DcfErrorsStrictlyBelow(inp, historicalData) ==
  (IF NoMetrics(historicalData) THEN <<HistoricalNotLoaded>> ELSE <<>>)
    \o (IF Lt(inp.wacc, inp.terminalGrowth) THEN <<WaccMessage(inp)>> ELSE <<>>)

\* The errors of the input validation
DcfErrors(inp, historicalData) ==
  (IF NoMetrics(historicalData) THEN <<HistoricalNotLoaded>> ELSE <<>>)
    \o (IF Le(inp.wacc, inp.terminalGrowth) THEN <<WaccMessage(inp)>> ELSE <<>>)

\* The `forecast` object: the arrays the loop pushes to, and the discounted FCFs
DcfForecast(inp, rows) ==
  [revenue  |-> [i \in 1..Len(rows) |-> rows[i].rev],
   ebit     |-> [i \in 1..Len(rows) |-> rows[i].ebit],
   nopat    |-> [i \in 1..Len(rows) |-> rows[i].nopat],
   capex    |-> [i \in 1..Len(rows) |-> rows[i].capex],
   da       |-> [i \in 1..Len(rows) |-> rows[i].da],
   nwcDelta |-> [i \in 1..Len(rows) |-> rows[i].nwcDelta],
   fcf      |-> [i \in 1..Len(rows) |-> rows[i].fcf],
   pvFCF    |-> [i \in 1..Len(rows) |->
                   Div(rows[i].fcf, PowHalf(Add(One, inp.wacc), i - 1))]]

\* The `summary` object
DcfSummary(inp, forecastFCF, terminalValue, npvFCF, pvTerminal, enterpriseValue, equityValue, impliedPrice) ==
  [npvFCF |-> npvFCF,
   pvTerminal |-> pvTerminal,
   terminalValue |-> terminalValue,
   enterpriseValue |-> enterpriseValue,
   netDebt |-> inp.netDebt,
   minorityInterest |-> inp.minorityInterest,
   cashAndEquiv |-> inp.cashAndEquiv,
   equityValue |-> equityValue,
   impliedPrice |-> impliedPrice,
   currentPrice |-> inp.currentPrice,
   upside |-> IF Truthy(inp.currentPrice) /\ Truthy(impliedPrice)
              THEN Div(Sub(impliedPrice, inp.currentPrice), inp.currentPrice)
              ELSE Null,
   irr |-> solveIRR(AddToLast(<<Neg(equityValue)>> \o forecastFCF, terminalValue)),
   wacc |-> inp.wacc,
   terminalGrowth |-> inp.terminalGrowth]

\* The equity bridge and the implied price
DcfBridge(inp, forecastFCF, terminalValue, npvFCF, pvTerminal, enterpriseValue) ==
  LET equityValue == DcfEquityValue(inp, enterpriseValue)
  IN  DcfSummary(inp, forecastFCF, terminalValue, npvFCF, pvTerminal, enterpriseValue,
                 equityValue,
                 IF Truthy(inp.sharesOutstanding) /\ Gt(inp.sharesOutstanding, Zero)
                 THEN Div(equityValue, inp.sharesOutstanding) ELSE Null)

\* The valuation with wacc + terminalGrowth as the terminal value's denominator
DcfValuationSummedRates(inp, n, forecast) ==
  LET terminalValue == Div(Mul(At(forecast.fcf, n - 1), Add(One, inp.terminalGrowth)),
                           Add(inp.wacc, inp.terminalGrowth))
      npvFCF        == SumTo(forecast.pvFCF, n)
      pvTerminal    == Div(terminalValue, PowInt(Add(One, inp.wacc), n))
  IN  DcfBridge(inp, forecast.fcf, terminalValue, npvFCF, pvTerminal,
                Add(npvFCF, pvTerminal))

\* The valuation with the terminal value added undiscounted
DcfValuationUndiscounted(inp, n, forecast) ==
  LET terminalValue == Div(Mul(At(forecast.fcf, n - 1), Add(One, inp.terminalGrowth)),
                           Sub(inp.wacc, inp.terminalGrowth))
      npvFCF        == SumTo(forecast.pvFCF, n)
      pvTerminal    == Div(terminalValue, PowInt(Add(One, inp.wacc), n))
  IN  DcfBridge(inp, forecast.fcf, terminalValue, npvFCF, pvTerminal,
                Add(npvFCF, terminalValue))

\* The terminal value and the present values of a forecast of n years
DcfValuation(inp, n, forecast) ==
  LET terminalValue == Div(Mul(At(forecast.fcf, n - 1), Add(One, inp.terminalGrowth)),
                           Sub(inp.wacc, inp.terminalGrowth))
      npvFCF        == SumTo(forecast.pvFCF, n)
      pvTerminal    == Div(terminalValue, PowInt(Add(One, inp.wacc), n))
  IN  DcfBridge(inp, forecast.fcf, terminalValue, npvFCF, pvTerminal,
                Add(npvFCF, pvTerminal))

\* The object stored in state.dcf for a valid model
DcfStored(inp, historicalData, baseYear, n, forecast, summary) ==
  [valid |-> TRUE,
   errors |-> <<>>,
   inputs |-> inp,
   baseYear |-> baseYear,
   forecastYearLabels |-> [i \in 1..n |-> <<baseYear + i, "E">>],
   historicalYearLabels |-> SubSeq(historicalData.years, 1, Len(historicalData.years) - 1),
   historical |-> [revenue |-> SliceHistorical(historicalData.metrics.revenue,
                                               historicalData.years)],
   forecast |-> forecast,
   summary |-> summary]

\* The forecast of n years, valued and labelled
DcfProjected(inp, historicalData, year, n, forecast) ==
  DcfStored(inp, historicalData, BaseYear(historicalData, year), n, forecast,
            DcfValuation(inp, n, forecast))

\* The value calculateDCF stores in state.dcf and returns; `year` is what
\* new Date().getFullYear() gives during the call.
calculateDCF(inp, historicalData, year) ==
  IF Len(DcfErrors(inp, historicalData)) > 0
  THEN [errors |-> DcfErrors(inp, historicalData), valid |-> FALSE]
  ELSE IF ~Truthy(lastValue(historicalData.metrics.revenue))
  THEN [errors |-> <<NoBaseRevenue>>, valid |-> FALSE]
  ELSE DcfProjected(inp, historicalData, year, LoopCount(inp.forecastYears),
                    DcfForecast(inp, DcfRows(inp, lastValue(historicalData.metrics.revenue),
                                             LoopCount(inp.forecastYears))))

\* ------------------------------------------------------------------------
\* Sensitivity tables (10a_sensitivity.js)
\* ------------------------------------------------------------------------

\* { ...a, ...b }: b's keys over a's
Spread(a, b) == [key \in DOMAIN a \cup DOMAIN b |-> IF key \in DOMAIN b THEN b[key] ELSE a[key]]

\* An object with one computed key, { [key]: v }
Obj1(key, v) == [x \in {key} |-> v]

EmptyObj == [x \in {} |-> Null]

\* The base-year revenue scan of sensitivityPrice
SensBaseRevenue(m) ==
  IF m.revenue.k # "arr" THEN Null
  ELSE LastValueFrom(m.revenue.items, Len(m.revenue.items))

\* The accumulators after i passes of the projection loop of sensitivityPrice
RECURSIVE SensLoop(_, _, _, _)
SensLoop(inp, rev, wacc, i) ==
  IF i = 0 THEN [pvFCFSum |-> Zero, prevRev |-> rev, lastFCF |-> Zero]
  ELSE LET acc   == SensLoop(inp, rev, wacc, i - 1)
           r     == Mul(acc.prevRev, Add(One, inp.revenueGrowth))
           nopat == Mul(Mul(r, inp.ebitMargin), Sub(One, inp.taxRate))
           capex == Mul(r, inp.capexPct)
           da    == Mul(capex, Lit(8, -1))
           nwc   == Mul(Sub(r, acc.prevRev), inp.nwcPct)
           fcf   == Sub(Sub(Add(nopat, da), capex), nwc)
       IN  [acc EXCEPT !.pvFCFSum = Add(@, Div(fcf, PowHalf(Add(One, wacc), i - 1))),
                       !.prevRev  = r,
                       !.lastFCF  = fcf]

\* x || 0
OrZero(x) == IF Truthy(x) THEN x ELSE Zero

\* price = equity / shares, or the equity itself without a share count
SensPerShare(inp, equity) ==
  IF ~Truthy(inp.sharesOutstanding) \/ Le(inp.sharesOutstanding, Zero) THEN equity
  ELSE Div(equity, inp.sharesOutstanding)

\* The terminal value, the enterprise value and the equity bridge of sensitivityPrice
SensValue(inp, n, acc) ==
  SensPerShare(inp,
    Add(Sub(Sub(Add(acc.pvFCFSum,
                    Div(Div(Mul(acc.lastFCF, Add(One, inp.terminalGrowth)),
                            Sub(inp.wacc, inp.terminalGrowth)),
                        PowInt(Add(One, inp.wacc), n))),
                OrZero(inp.netDebt)),
            OrZero(inp.minorityInterest)),
        OrZero(inp.cashAndEquiv)))

\* sensitivityPrice without its WACC validation
SensPriceOfUnvalidated(inp, m) ==
  IF ~Truthy(SensBaseRevenue(m)) THEN Null
  ELSE SensValue(inp, LoopCount(inp.forecastYears),
                 SensLoop(inp, SensBaseRevenue(m), inp.wacc, LoopCount(inp.forecastYears)))

\* sensitivityPrice from the merged inputs and the metrics
SensPriceOf(inp, m) ==
  IF Le(inp.wacc, inp.terminalGrowth) THEN Null
  ELSE IF ~Truthy(SensBaseRevenue(m)) THEN Null
  ELSE SensValue(inp, LoopCount(inp.forecastYears),
                 SensLoop(inp, SensBaseRevenue(m), inp.wacc, LoopCount(inp.forecastYears)))

\* sensitivityPrice(overrides), reading state.inputs and state.historical
sensitivityPrice(stInputs, stHistorical, overrides) ==
  IF NoMetrics(stHistorical) THEN Null
  ELSE SensPriceOf(Spread(stInputs, overrides), stHistorical.metrics)

\* The `prices` matrix of buildSensitivityTable, each cell for the overrides
\* { [rowKey]: rv, [colKey]: cv } (the later key wins where both are the same)
SensitivityPrices(stInputs, stHistorical, rowValues, colValues, rowKey, colKey) ==
  [ri \in 1..Len(rowValues) |->
    [ci \in 1..Len(colValues) |->
      sensitivityPrice(stInputs, stHistorical,
                       Spread(Obj1(rowKey, rowValues[ri]), Obj1(colKey, colValues[ci])))]]

\* +(base + d * step).toFixed(4) for d in -2..2
AxisValues(base, step) ==
  [i \in 1..5 |->
    LET fx == ToFixed(Add(base, Mul(Lit(i - 3, 0), step)), 4)
    IN  IF fx.str = "NaN" THEN NaN ELSE Norm(fx.units, -4)]

\* What buildSensitivityTable draws: the axes and the price of every cell
buildSensitivityTable(stInputs, stHistorical, rowValues, colValues, rowKey, colKey) ==
  [rowKey |-> rowKey, colKey |-> colKey, rowValues |-> rowValues, colValues |-> colValues,
   prices |-> SensitivityPrices(stInputs, stHistorical, rowValues, colValues, rowKey, colKey)]

\* state.dcf?.valid
DcfValid(stDcf) == "valid" \in DOMAIN stDcf /\ stDcf.valid

\* renderSensitivity(): the content of #section-sensitivity
renderSensitivity(stInputs, stHistorical, stDcf) ==
  IF ~DcfValid(stDcf) THEN [rendered |-> FALSE]
  ELSE [rendered |-> TRUE,
        tableA |-> buildSensitivityTable(stInputs, stHistorical,
                                         AxisValues(stInputs.wacc, Lit(5, -3)),
                                         AxisValues(stInputs.terminalGrowth, Lit(25, -4)),
                                         "wacc", "terminalGrowth"),
        tableB |-> buildSensitivityTable(stInputs, stHistorical,
                                         AxisValues(stInputs.revenueGrowth, Lit(5, -3)),
                                         AxisValues(stInputs.ebitMargin, Lit(1, -2)),
                                         "revenueGrowth", "ebitMargin")]

\* ------------------------------------------------------------------------
\* Scenario builder: tornado (07_assumptions_panel.js)
\* ------------------------------------------------------------------------

\* The slider definitions: key, min, max, step, delta
SCENARIO_SLIDERS ==
  << [key |-> "wacc",           min |-> Lit(4, -2),   max |-> Lit(20, -2),
      step |-> Lit(1, -3), delta |-> Lit(1, -2)],
     [key |-> "revenueGrowth",  min |-> Lit(-10, -2), max |-> Lit(30, -2),
      step |-> Lit(1, -3), delta |-> Lit(2, -2)],
     [key |-> "ebitMargin",     min |-> Lit(2, -2),   max |-> Lit(50, -2),
      step |-> Lit(1, -3), delta |-> Lit(2, -2)],
     [key |-> "taxRate",        min |-> Lit(5, -2),   max |-> Lit(45, -2),
      step |-> Lit(1, -3), delta |-> Lit(2, -2)],
     [key |-> "capexPct",       min |-> Zero,         max |-> Lit(20, -2),
      step |-> Lit(1, -3), delta |-> Lit(1, -2)],
     [key |-> "terminalGrowth", min |-> Zero,         max |-> Lit(6, -2),
      step |-> Lit(1, -3), delta |-> Lit(5, -3)],
     [key |-> "exitMultiple",   min |-> Lit(5, 0),    max |-> Lit(30, 0),
      step |-> Lit(5, -1), delta |-> Lit(2, 0)] >>

\* SCENARIO_SLIDERS.filter(s => s.key !== 'exitMultiple')
SweptSliders == SelectSeq(SCENARIO_SLIDERS, LAMBDA s : s.key # "exitMultiple")

\* hi !== null ? hi - basePrice : 0
DeltaOrZero(price, basePrice) == IF price.k # "null" THEN Sub(price, basePrice) ELSE Zero

\* The entry pushed for slider s
TornadoScored(s, hiDelta, loDelta) ==
  [key |-> s.key, hiDelta |-> hiDelta, loDelta |-> loDelta,
   spread |-> Add(MathAbs(hiDelta), MathAbs(loDelta))]

\* One pass of the loop of computeTornado, for slider s
TornadoEntry(stInputs, stHistorical, basePrice, s) ==
  TornadoScored(s,
    DeltaOrZero(sensitivityPrice(stInputs, stHistorical,
                                 Obj1(s.key, Add(stInputs[s.key], s.delta))), basePrice),
    DeltaOrZero(sensitivityPrice(stInputs, stHistorical,
                                 Obj1(s.key, Sub(stInputs[s.key], s.delta))), basePrice))

\* The sort with the comparator (a, b) => a.spread - b.spread
RECURSIVE InsertBySpreadAscending(_, _)
InsertBySpreadAscending(sorted, x) ==
  IF sorted = <<>> THEN <<x>>
  ELSE IF ~Gt(Sub(Head(sorted).spread, x.spread), Zero)
       THEN <<Head(sorted)>> \o InsertBySpreadAscending(Tail(sorted), x)
       ELSE <<x>> \o sorted

\* Array.prototype.sort((a, b) => b.spread - a.spread), a stable sort: x goes
\* after every element the comparator does not put behind it.
RECURSIVE InsertBySpread(_, _)
InsertBySpread(sorted, x) ==
  IF sorted = <<>> THEN <<x>>
  ELSE IF ~Gt(Sub(x.spread, Head(sorted).spread), Zero)
       THEN <<Head(sorted)>> \o InsertBySpread(Tail(sorted), x)
       ELSE <<x>> \o sorted

RECURSIVE SortBySpreadTo(_, _)
SortBySpreadTo(items, i) ==
  IF i = 0 THEN <<>> ELSE InsertBySpread(SortBySpreadTo(items, i - 1), items[i])

\* `results` after the first i sliders: results.push({ ... })
RECURSIVE TornadoResults(_, _, _, _)
TornadoResults(stInputs, stHistorical, basePrice, i) ==
  IF i = 0 THEN <<>>
  ELSE Append(TornadoResults(stInputs, stHistorical, basePrice, i - 1),
              TornadoEntry(stInputs, stHistorical, basePrice, SweptSliders[i]))

\* computeTornado() once basePrice is known
TornadoFrom(stInputs, stHistorical, basePrice) ==
  IF ~Truthy(basePrice) THEN <<>>
  ELSE LET results == TornadoResults(stInputs, stHistorical, basePrice, Len(SweptSliders))
       IN  SortBySpreadTo(results, Len(results))

\* computeTornado(), reading state.inputs and state.historical
computeTornado(stInputs, stHistorical) ==
  TornadoFrom(stInputs, stHistorical, sensitivityPrice(stInputs, stHistorical, EmptyObj))

\* ------------------------------------------------------------------------
\* buildDefaultInputs (03_normalization.js)
\* ------------------------------------------------------------------------

\* series.slice(-years).filter(v => v !== null && isFinite(v))
RECURSIVE ValidTail(_, _, _)
ValidTail(items, from, i) ==
  IF i < from \/ i < 1 THEN <<>>
  ELSE ValidTail(items, from, i - 1) \o (IF items[i].k = "num" THEN <<items[i]>> ELSE <<>>)

\* --- 3-year trailing average of a series (ignores nulls) ---
trailingAvg(series) ==
  IF series.k # "arr" THEN Null
  ELSE LET valid == ValidTail(series.items, Len(series.items) - 2, Len(series.items))
       IN  IF Len(valid) = 0 THEN Null
           ELSE Div(SumTo(valid, Len(valid)), Lit(Len(valid), 0))

safeDivide(numerator, denominator) ==
  IF denominator.k \in {"null", "undefined"} \/ denominator = Zero THEN Null
  ELSE IF numerator.k \in {"null", "undefined"} THEN Null
  ELSE Div(numerator, denominator)

\* a ?? b
Coalesce(a, b) == IF NotNullish(a) THEN a ELSE b

DaPctDefault(m) ==
  LET daAvg  == trailingAvg(m.depreciation)
      revAvg == trailingAvg(m.revenue)
  IN  IF m.depreciation.k = "arr" /\ m.revenue.k = "arr"
         /\ NotNullish(daAvg) /\ NotNullish(revAvg) /\ revAvg # Zero
      THEN MathAbs(Div(daAvg, revAvg))
      ELSE Lit(4, -2)

NwcPctDefault(m) ==
  LET nwcAvg  == trailingAvg(m.changeInNWC)
      revAvg  == trailingAvg(m.revenue)
      caLast  == lastValue(m.currentAssets)
      clLast  == lastValue(m.currentLiabilities)
      revLast == lastValue(m.revenue)
  IN  IF m.changeInNWC.k = "arr" /\ m.revenue.k = "arr"
         /\ NotNullish(nwcAvg) /\ NotNullish(revAvg) /\ revAvg # Zero
      THEN MathAbs(Div(nwcAvg, revAvg))
      ELSE IF m.currentAssets.k = "arr" /\ m.currentLiabilities.k = "arr" /\ m.revenue.k = "arr"
              /\ NotNullish(caLast) /\ NotNullish(clLast) /\ NotNullish(revLast)
              /\ revLast # Zero
      THEN Mul(MathAbs(Div(Sub(caLast, clLast), revLast)), Lit(1, -1))
      ELSE Lit(2, -2)

ExitMultipleDefault(m) ==
  LET val == lastValue(m.evToEbitda)
  IN  IF m.evToEbitda.k = "arr" /\ NotNullish(val) /\ Gt(val, Zero) /\ Lt(val, Lit(100, 0))
      THEN val ELSE Lit(10, 0)

\* The `defaults` object, with wacc computed from its components
Defaults(historicalData) ==
  LET m == historicalData.metrics
      d == historicalData.derived
      costOfEquity == Lit(10, -2)
      costOfDebt   == Lit(5, -2)
      debtWeight   == Lit(30, -2)
      equityWeight == Lit(70, -2)
      taxRate      == Lit(25, -2)
  IN  [forecastYears     |-> Lit(5, 0),
       revenueGrowth     |-> Coalesce(trailingAvg(d.revenueGrowth), Lit(5, -2)),
       ebitMargin        |-> Coalesce(trailingAvg(d.ebitMargin), Lit(12, -2)),
       taxRate           |-> taxRate,
       capexPct          |-> IF NotNullish(safeDivide(trailingAvg(m.capex), trailingAvg(m.revenue)))
                             THEN MathAbs(Div(trailingAvg(m.capex), trailingAvg(m.revenue)))
                             ELSE Lit(5, -2),
       daPct             |-> DaPctDefault(m),
       nwcPct            |-> NwcPctDefault(m),
       exitMultiple      |-> ExitMultipleDefault(m),
       costOfEquity      |-> costOfEquity,
       costOfDebt        |-> costOfDebt,
       debtWeight        |-> debtWeight,
       equityWeight      |-> equityWeight,
       wacc              |-> Add(Mul(costOfEquity, equityWeight),
                                 Mul(Mul(costOfDebt, debtWeight), Sub(One, taxRate))),
       terminalGrowth    |-> Lit(25, -3),
       currentPrice      |-> Null,
       sharesOutstanding |-> Coalesce(lastValue(m.sharesOutstanding), Null),
       netDebt           |-> Coalesce(lastValue(d.netDebt), Zero),
       minorityInterest  |-> Coalesce(lastValue(m.minorityInterest), Zero),
       preferredEquity   |-> Coalesce(lastValue(m.preferredEquity), Zero),
       cashAndEquiv      |-> Coalesce(lastValue(m.cash), Zero)]

\* buildDefaultInputs filling every field that is falsy
buildDefaultInputsOverFalsy(stInputs, historicalData) ==
  IF historicalData.k # "obj" THEN stInputs
  ELSE [key \in DOMAIN stInputs |->
          IF ~Truthy(stInputs[key]) THEN Defaults(historicalData)[key] ELSE stInputs[key]]

\* state.inputs after buildDefaultInputs(historicalData)
buildDefaultInputs(stInputs, historicalData) ==
  IF historicalData.k # "obj" THEN stInputs
  ELSE [key \in DOMAIN stInputs |->
          IF stInputs[key].k \in {"undefined", "null"}
          THEN Defaults(historicalData)[key] ELSE stInputs[key]]

\* ------------------------------------------------------------------------
\* Ingestion: normalizeData (03_normalization.js) and computeDerivedMetrics
\* ------------------------------------------------------------------------

\* state.historical after normalizeData(): rawData carries the year labels
\* found by extractYear and, per line item, the series extractSeries matched.
normalizeData(stHistorical, rawData) ==
  IF Len(rawData.years) = 0 THEN stHistorical
  ELSE [k |-> "obj", years |-> rawData.years, metrics |-> rawData.rows,
        derived |-> [key \in DerivedKeys |-> Undefined]]

MinInt(a, b) == IF a < b THEN a ELSE b

\* --- YoY growth rate for a single series ---
yoyGrowth(series) ==
  IF series.k # "arr" THEN Null
  ELSE Arr([i \in 1..Len(series.items) |->
              IF i = 1 THEN Null
              ELSE LET prev == series.items[i - 1]
                   IN  IF prev.k = "null" \/ prev = Zero THEN Null
                       ELSE Div(Sub(series.items[i], prev), MathAbs(prev))])

\* arrayOp(a, b, safeDivide)
DivideSeries(a, b) ==
  IF a.k # "arr" \/ b.k # "arr" THEN Null
  ELSE Arr([i \in 1..MinInt(Len(a.items), Len(b.items)) |->
              safeDivide(a.items[i], b.items[i])])

\* NET DEBT = Total Debt - Cash
NetDebtSeries(totalDebt, cash) ==
  IF totalDebt.k # "arr" \/ cash.k # "arr" THEN Null
  ELSE Arr([i \in 1..MinInt(Len(totalDebt.items), Len(cash.items)) |->
              IF totalDebt.items[i].k # "null" /\ cash.items[i].k # "null"
              THEN Sub(totalDebt.items[i], cash.items[i]) ELSE Null])

\* state.historical after computeDerivedMetrics()
computeDerivedMetrics(stHistorical) ==
  IF stHistorical.k # "obj" THEN stHistorical
  ELSE LET m == stHistorical.metrics
       IN  [stHistorical EXCEPT !.derived =
              [revenueGrowth |-> yoyGrowth(m.revenue),
               ebitMargin    |-> DivideSeries(m.ebit, m.revenue),
               netDebt       |-> NetDebtSeries(m.totalDebt, m.cash)]]

\* ------------------------------------------------------------------------
\* The engine calls as the heap sees them
\* ------------------------------------------------------------------------

\* The two argument objects and state.dcf once calculateDCF(inp, historicalData)
\* has returned: it assigns state.dcf and no field of either argument.
AfterCalculateDCF(inp, historicalData, year) ==
  [inputs |-> inp, historicalData |-> historicalData,
   dcf |-> calculateDCF(inp, historicalData, year)]

\* calculateDCFPure storing its result in state.dcf, as calculateDCF does
AfterCalculateDCFPureStoring(inp, historicalData, stDcf) ==
  [inputs |-> inp, historicalData |-> historicalData,
   dcf |-> calculateDCFPure(inp, historicalData),
   returned |-> calculateDCFPure(inp, historicalData)]

\* The same once calculateDCFPure(inp, historicalData) has returned, called
\* while state.dcf was stDcf: it assigns nothing outside its locals.
AfterCalculateDCFPure(inp, historicalData, stDcf) ==
  [inputs |-> inp, historicalData |-> historicalData, dcf |-> stDcf,
   returned |-> calculateDCFPure(inp, historicalData)]

\* ------------------------------------------------------------------------
\* Assumptions panel
\* ------------------------------------------------------------------------

\* The fields of ASSUMPTION_GROUPS: key, type and step
ASSUMPTION_FIELDS ==
  << [key |-> "forecastYears",     type |-> "int",   step |-> Lit(1, 0)],
     [key |-> "currentPrice",      type |-> "float", step |-> Lit(1, -2)],
     [key |-> "revenueGrowth",     type |-> "pct",   step |-> Lit(1, -1)],
     [key |-> "ebitMargin",        type |-> "pct",   step |-> Lit(1, -1)],
     [key |-> "taxRate",           type |-> "pct",   step |-> Lit(1, -1)],
     [key |-> "capexPct",          type |-> "pct",   step |-> Lit(1, -1)],
     [key |-> "nwcPct",            type |-> "pct",   step |-> Lit(1, -1)],
     [key |-> "costOfEquity",      type |-> "pct",   step |-> Lit(1, -1)],
     [key |-> "costOfDebt",        type |-> "pct",   step |-> Lit(1, -1)],
     [key |-> "equityWeight",      type |-> "pct",   step |-> Lit(1, 0)],
     [key |-> "debtWeight",        type |-> "pct",   step |-> Lit(1, 0)],
     [key |-> "wacc",              type |-> "pct",   step |-> Lit(1, -1)],
     [key |-> "terminalGrowth",    type |-> "pct",   step |-> Lit(1, -1)],
     [key |-> "netDebt",           type |-> "float", step |-> Lit(1, 0)],
     [key |-> "minorityInterest",  type |-> "float", step |-> Lit(1, 0)],
     [key |-> "sharesOutstanding", type |-> "float", step |-> Lit(1, -1)] >>

FieldKeys == {ASSUMPTION_FIELDS[i].key : i \in 1..Len(ASSUMPTION_FIELDS)}

FieldOf(key) ==
  ASSUMPTION_FIELDS[CHOOSE i \in 1..Len(ASSUMPTION_FIELDS) : ASSUMPTION_FIELDS[i].key = key]

\* The literal { type: 'pct', step: 0.1 } the WACC field is read and written with
WaccField == [key |-> "wacc", type |-> "pct", step |-> Lit(1, -1)]

\* The empty string
EmptyText == [str |-> "", units |-> 0, d |-> 0]

\* Math.round: the nearest integer, halves toward +Infinity
MathRound(v) ==
  LET x == ToNumber(v)
  IN  IF x.k = "nan" THEN NaN
      ELSE IF x.e >= 0 THEN x
      ELSE IF -x.e > 5 THEN Zero
      ELSE Lit((2 * x.m + Pow10(-x.e)) \div (2 * Pow10(-x.e)), 0)

\* parseFloat of a string toFixed or the user wrote
parseFloat(txt) == IF txt.str = "fixed" THEN Norm(txt.units, -txt.d) ELSE NaN

inputDisplayValue(field, rawVal) ==
  IF ~NotNullish(rawVal) THEN EmptyText
  ELSE IF field.type = "pct"
  THEN ToFixed(Mul(rawVal, Lit(100, 0)), IF Lt(field.step, One) THEN 1 ELSE 0)
  ELSE IF field.type = "int" THEN ToFixed(MathRound(rawVal), 0)
  ELSE ToFixed(ToNumber(rawVal), IF Lt(field.step, One) THEN 2 ELSE 0)

parseInputValue(field, strVal) ==
  LET n == parseFloat(strVal)
  IN  IF n.k = "nan" THEN Null
      ELSE IF field.type = "pct" THEN Div(n, Lit(100, 0))
      ELSE IF field.type = "int" THEN MathRound(n)
      ELSE n

\* The value attribute buildInputRow gives every field
NoFields == [rendered |-> FALSE, value |-> [key \in FieldKeys |-> EmptyText]]

renderAssumptionsPanel(stInputs) ==
  [rendered |-> TRUE,
   value |-> [key \in FieldKeys |-> inputDisplayValue(FieldOf(key), stInputs[key])]]

\* costOfEquity * equityWeight + costOfDebt * debtWeight * (1 - taxRate)
WaccFromComponents(ce, ew, cd, dw, tr) ==
  Add(Mul(ce, ew), Mul(Mul(cd, dw), Sub(One, tr)))

\* The loop of collectInputs: every field that parses replaces its input
CollectedFields(stInputs, stFields) ==
  [key \in DOMAIN stInputs |->
     IF key \in FieldKeys /\ parseInputValue(FieldOf(key), stFields.value[key]) # Null
     THEN parseInputValue(FieldOf(key), stFields.value[key]) ELSE stInputs[key]]

\* The end of collectInputs: the WACC recomputed unless the typed one differs
WithComputedWacc(collected, typed) ==
  IF Lt(MathAbs(Sub(typed, collected.wacc)), Lit(5, -4))
  THEN [collected EXCEPT !.wacc =
          WaccFromComponents(collected.costOfEquity, collected.equityWeight,
                             collected.costOfDebt, collected.debtWeight, collected.taxRate)]
  ELSE collected

\* state.inputs after collectInputs()
collectInputs(stInputs, stFields) ==
  IF ~stFields.rendered THEN stInputs
  ELSE WithComputedWacc(CollectedFields(stInputs, stFields),
                        parseInputValue(WaccField, stFields.value.wacc))

\* The fields whose input event also refreshes the WACC display
WaccComponentKeys == {"costOfEquity", "costOfDebt", "equityWeight", "debtWeight", "taxRate"}

\* The `input` listener of the five component fields: the text it writes to inp-wacc
LiveWaccDisplay(stInputs, stFields) ==
  LET read(key) == Coalesce(parseInputValue(FieldOf(key), stFields.value[key]), stInputs[key])
  IN  ToFixed(Mul(WaccFromComponents(read("costOfEquity"), read("equityWeight"),
                                     read("costOfDebt"), read("debtWeight"),
                                     read("taxRate")),
                  Lit(100, 0)), 1)

\* ------------------------------------------------------------------------
\* Learning overlay: base case and attribution
\* ------------------------------------------------------------------------

ATTRIBUTION_DRIVERS ==
  << [key |-> "revenueGrowth",     type |-> "rate"],
     [key |-> "ebitMargin",        type |-> "rate"],
     [key |-> "taxRate",           type |-> "rate"],
     [key |-> "capexPct",          type |-> "rate"],
     [key |-> "nwcPct",            type |-> "rate"],
     [key |-> "wacc",              type |-> "rate"],
     [key |-> "terminalGrowth",    type |-> "rate"],
     [key |-> "netDebt",           type |-> "dollar"],
     [key |-> "sharesOutstanding", type |-> "shares"] >>

\* window.learningState after captureBaseCase()
captureBaseCase(ls, stInputs, stDcf) ==
  [ls EXCEPT !.baseInputs = stInputs,
             !.baseOutputs =
               IF DcfValid(stDcf)
               THEN [enterpriseValue |-> stDcf.summary.enterpriseValue,
                     equityValue     |-> stDcf.summary.equityValue,
                     impliedPrice    |-> stDcf.summary.impliedPrice,
                     irr             |-> stDcf.summary.irr,
                     pvTerminal      |-> stDcf.summary.pvTerminal,
                     terminalValue   |-> stDcf.summary.terminalValue,
                     npvFCF          |-> stDcf.summary.npvFCF]
               ELSE Null]

\* onSetBaseCase leaving isBaseAutoCaptured as it was
onSetBaseCaseKeepingFlag(ls, stInputs, stDcf) == captureBaseCase(ls, stInputs, stDcf)

\* window.learningState after the first two statements of onSetBaseCase()
onSetBaseCase(ls, stInputs, stDcf) ==
  [captureBaseCase(ls, stInputs, stDcf) EXCEPT !.isBaseAutoCaptured = FALSE]

\* hasDriverChanged with both thresholds exclusive
hasDriverChangedAbove(driverDef, baseInputs, currentInputs) ==
  LET bv == baseInputs[driverDef.key]
      cv == currentInputs[driverDef.key]
  IN  IF ~NotNullish(bv) \/ ~NotNullish(cv) THEN FALSE
      ELSE IF driverDef.type = "rate" THEN Gt(MathAbs(Sub(cv, bv)), Lit(5, -4))
      ELSE IF bv = Zero THEN cv # Zero
      ELSE Gt(MathAbs(Div(Sub(cv, bv), bv)), Lit(5, -3))

hasDriverChanged(driverDef, baseInputs, currentInputs) ==
  LET bv == baseInputs[driverDef.key]
      cv == currentInputs[driverDef.key]
  IN  IF ~NotNullish(bv) \/ ~NotNullish(cv) THEN FALSE
      ELSE IF driverDef.type = "rate" THEN Ge(MathAbs(Sub(cv, bv)), Lit(5, -4))
      ELSE IF bv = Zero THEN cv # Zero
      ELSE Ge(MathAbs(Div(Sub(cv, bv), bv)), Lit(5, -3))

\* computeAttribution's cap on one-at-a-time reruns
maxReruns == 10

\* The reruns evaluated on the current inputs, every change at once
AttributionRerunsCompounding(ls, stInputs, stHistorical, stDcf) ==
  LET changedDrivers == SelectSeq(ATTRIBUTION_DRIVERS,
                                  LAMBDA drv : hasDriverChanged(drv, ls.baseInputs, stInputs))
      driversToRun   == SubSeq(changedDrivers, 1, MinInt(maxReruns, Len(changedDrivers)))
  IN  [i \in 1..Len(driversToRun) |->
         [driver |-> driversToRun[i],
          inputs |-> stInputs,
          after  |-> AfterCalculateDCFPure(stInputs, stHistorical, stDcf)]]

\* The one-at-a-time reruns of computeAttribution, in order: the driver, the
\* scenario inputs and the heap after the call
AttributionReruns(ls, stInputs, stHistorical, stDcf) ==
  LET changedDrivers == SelectSeq(ATTRIBUTION_DRIVERS,
                                  LAMBDA drv : hasDriverChanged(drv, ls.baseInputs, stInputs))
      driversToRun   == SubSeq(changedDrivers, 1, MinInt(maxReruns, Len(changedDrivers)))
  IN  [i \in 1..Len(driversToRun) |->
         LET scenarioInputs == Spread(ls.baseInputs,
                                      Obj1(driversToRun[i].key, stInputs[driversToRun[i].key]))
         IN  [driver |-> driversToRun[i],
              inputs |-> scenarioInputs,
              after  |-> AfterCalculateDCFPure(scenarioInputs, stHistorical, stDcf)]]

\* a - b when neither is null or undefined, else null
DiffOrNull(a, b) == IF NotNullish(a) /\ NotNullish(b) THEN Sub(a, b) ELSE Null

\* The sort with its comparator reversed: the smallest |evImpact| first
RECURSIVE InsertByImpactAscending(_, _)
InsertByImpactAscending(sorted, x) ==
  IF sorted = <<>> THEN <<x>>
  ELSE IF ~Lt(Sub(MathAbs(x.evImpact), MathAbs(Head(sorted).evImpact)), Zero)
       THEN <<Head(sorted)>> \o InsertByImpactAscending(Tail(sorted), x)
       ELSE <<x>> \o sorted

\* impacts.sort((a, b) => Math.abs(b.evImpact) - Math.abs(a.evImpact))
RECURSIVE InsertByImpact(_, _)
InsertByImpact(sorted, x) ==
  IF sorted = <<>> THEN <<x>>
  ELSE IF ~Gt(Sub(MathAbs(x.evImpact), MathAbs(Head(sorted).evImpact)), Zero)
       THEN <<Head(sorted)>> \o InsertByImpact(Tail(sorted), x)
       ELSE <<x>> \o sorted

RECURSIVE SortByImpactTo(_, _)
SortByImpactTo(items, i) ==
  IF i = 0 THEN <<>> ELSE InsertByImpact(SortByImpactTo(items, i - 1), items[i])

\* pvTerminal / enterpriseValue of a set of outputs, or null
TVPct(out) ==
  IF NotNullish(out.pvTerminal) /\ Truthy(out.enterpriseValue)
  THEN Div(out.pvTerminal, out.enterpriseValue) ELSE Null

\* Whether computeAttribution gets as far as its reruns
AttributionRuns(ls, stHistorical, stDcf) ==
  /\ ls.baseInputs # Null
  /\ ls.baseOutputs # Null
  /\ DcfValid(stDcf)
  /\ stHistorical.k = "obj"

\* The entry computeAttribution pushes for a valid rerun
DriverImpact(ls, stInputs, rerun) ==
  [key         |-> rerun.driver.key,
   type        |-> rerun.driver.type,
   baseVal     |-> ls.baseInputs[rerun.driver.key],
   currVal     |-> stInputs[rerun.driver.key],
   evImpact    |-> Sub(rerun.after.returned.enterpriseValue, ls.baseOutputs.enterpriseValue),
   priceImpact |-> DiffOrNull(rerun.after.returned.impliedPrice, ls.baseOutputs.impliedPrice),
   irrImpact   |-> DiffOrNull(rerun.after.returned.irr, ls.baseOutputs.irr)]

\* What computeAttribution returns once the reruns that came out valid are known
AttributionOf(ls, stInputs, stDcf, valid) ==
  [baseOut        |-> ls.baseOutputs,
   currentOutputs |-> [enterpriseValue |-> stDcf.summary.enterpriseValue,
                       impliedPrice    |-> stDcf.summary.impliedPrice,
                       irr             |-> stDcf.summary.irr],
   impacts        |-> SortByImpactTo([i \in 1..Len(valid) |->
                                        DriverImpact(ls, stInputs, valid[i])], Len(valid)),
   baseTVPct      |-> TVPct(ls.baseOutputs),
   currTVPct      |-> TVPct(stDcf.summary)]

computeAttribution(ls, stInputs, stDcf, reruns) ==
  AttributionOf(ls, stInputs, stDcf, SelectSeq(reruns, LAMBDA r : r.after.returned.valid))

\* The calculateDCFPure calls updateLearningPanel() makes, through computeAttribution
LearningPanelCalls(ls, stInputs, stHistorical, stDcf) ==
  IF AttributionRuns(ls, stHistorical, stDcf)
  THEN AttributionReruns(ls, stInputs, stHistorical, stDcf)
  ELSE <<>>

\* updateLearningPanel(): what #learning-panel-content shows, given the reruns
\* its call of computeAttribution made
updateLearningPanel(ls, stInputs, stHistorical, stDcf, reruns) ==
  IF ls.baseInputs = Null \/ ls.baseOutputs = Null THEN [kind |-> "waiting"]
  ELSE IF ~DcfValid(stDcf) THEN [kind |-> "error", errors |-> stDcf.errors]
  ELSE IF ~AttributionRuns(ls, stHistorical, stDcf) THEN [kind |-> "unable"]
  ELSE [kind |-> "attribution",
        attribution |-> computeAttribution(ls, stInputs, stDcf, reruns)]

\* ------------------------------------------------------------------------
\* Scenario builder: sliders (07_assumptions_panel.js)
\* ------------------------------------------------------------------------

SliderKeys == {SCENARIO_SLIDERS[i].key : i \in 1..Len(SCENARIO_SLIDERS)}

SliderOf(key) ==
  SCENARIO_SLIDERS[CHOOSE i \in 1..Len(SCENARIO_SLIDERS) : SCENARIO_SLIDERS[i].key = key]

\* x moved to the nearest step counted from min, halves upward
SnapToStep(s, x) == Add(s.min, Mul(MathRound(Div(Sub(x, s.min), s.step)), s.step))

\* x clamped to [min, max]
Clamp(s, x) == IF Lt(x, s.min) THEN s.min ELSE IF Gt(x, s.max) THEN s.max ELSE x

\* The value an <input type="range" min max step> holds when set to v: v
\* clamped to [min, max] and moved to the nearest step; the midpoint when v is
\* no number.
SliderSanitize(s, v) ==
  SnapToStep(s, Clamp(s, IF v.k = "num" THEN v
                         ELSE Add(s.min, Div(Sub(s.max, s.min), Lit(2, 0)))))

NoSliders == [rendered |-> FALSE, value |-> [key \in SliderKeys |-> Zero]]

\* buildSliderRow for every slider: the value each element holds
buildSliderRows(stInputs) ==
  [rendered |-> TRUE,
   value |-> [key \in SliderKeys |-> SliderSanitize(SliderOf(key), stInputs[key])]]

\* renderScenario(): the base-case snapshot, the sliders and the tornado
renderScenario(stInputs, stHistorical, stDcf, base) ==
  IF ~DcfValid(stDcf)
  THEN [scenarioBase |-> base, sliders |-> NoSliders, tornado |-> <<>>]
  ELSE [scenarioBase |-> [price  |-> sensitivityPrice(stInputs, stHistorical, EmptyObj),
                          inputs |-> stInputs],
        sliders      |-> buildSliderRows(stInputs),
        tornado      |-> computeTornado(stInputs, stHistorical)]

\* state.inputs after the loop of _onSliderChange, which skips exitMultiple
SliderInputs(stInputs, stSliders) ==
  IF ~stSliders.rendered THEN stInputs
  ELSE [key \in DOMAIN stInputs |->
          IF key \in SliderKeys \ {"exitMultiple"} THEN stSliders.value[key]
          ELSE stInputs[key]]

\* ------------------------------------------------------------------------
\* The environment: uploaded files, typed texts, slider positions, the clock
\* ------------------------------------------------------------------------

\* A year label as extractYear returns it: a string of four digits
YearLabels == << <<"2", "0", "2", "1">>, <<"2", "0", "2", "2">>, <<"2", "0", "2", "3">> >>

\* A three-year series of whole numbers
Series(a, b, c) == Arr(<<Lit(a, 0), Lit(b, 0), Lit(c, 0)>>)

\* A file in which no line item was matched
NoRows == [key \in MetricKeys |-> Null]

\* A growing, profitable company with debt, cash and a share count
ProfitableFile ==
  [years |-> YearLabels,
   rows  |-> [NoRows EXCEPT !.revenue           = Series(800, 900, 1000),
                            !.ebit              = Series(96, 108, 120),
                            !.capex             = Series(-60, -60, -60),
                            !.depreciation      = Series(40, 45, 50),
                            !.sharesOutstanding = Series(100, 100, 100),
                            !.totalDebt         = Series(300, 300, 300),
                            !.cash              = Series(100, 100, 100)]]

\* A shrinking, loss-making company whose file gives no share count
LossMakingFile ==
  [years |-> YearLabels,
   rows  |-> [NoRows EXCEPT !.revenue = Series(500, 450, 400),
                            !.ebit    = Series(-50, -45, -40)]]

\* A flat company that breaks even and neither invests nor depreciates
BreakEvenFile ==
  [years |-> YearLabels,
   rows  |-> [NoRows EXCEPT !.revenue           = Series(1000, 1000, 1000),
                            !.ebit              = Series(0, 0, 0),
                            !.capex             = Series(0, 0, 0),
                            !.depreciation      = Series(0, 0, 0),
                            !.sharesOutstanding = Series(100, 100, 100)]]

\* A file in which no year header was found
NoYearsFile == [years |-> <<>>, rows |-> NoRows]

Files == {ProfitableFile, LossMakingFile, BreakEvenFile, NoYearsFile}

\* A text the user types into a field: a decimal with one fractional digit
Typed(tenths) == [str |-> "fixed", units |-> tenths, d |-> 1]

\* The edits of the assumption fields: the field and the text typed, "2.5" or "7.5"
FieldEdits == {<<"terminalGrowth", Typed(25)>>, <<"terminalGrowth", Typed(75)>>}

\* The positions the sliders are dragged to
SliderMoves == {<<"wacc", Lit(6, -2)>>, <<"terminalGrowth", Lit(4, -2)>>}

\* The year the clock shows when the page loads, and how many new years it may see
StartYear == 2026

MaxTicks == 1

\* ------------------------------------------------------------------------
\* The state machine
\* ------------------------------------------------------------------------

NoScenarioBase == [price |-> Null, inputs |-> Null]

\* The delay of recalculateDebounced and the ms of the throttle of
\* _onSliderChange, in milliseconds
RecalcDelay == 200

ThrottleMs == 80

\* Time is followed in steps of half the throttle's window, which divide both
Quantum == ThrottleMs \div 2

\* No timer is pending. recalcIn and throttleIn are the milliseconds until the
\* timer of recalculateDebounced and of the throttle fire (-1: none pending);
\* sinceLast is Date.now() - last, kept up to ThrottleMs (last = 0 at first).
\* The others record what has happened: the milliseconds since the last input
\* event (kept up to RecalcDelay + Quantum) and since fn last ran (kept up to
\* ThrottleMs), -1 before the first; the input events of the burst under way
\* and the runs of recalculate since its last event (both kept up to 2);
\* the milliseconds between the last two runs of fn (-1 before the second);
\* whether a call of the throttled function still awaits its run.
NoTimers ==
  [recalcIn |-> -1, throttleIn |-> -1, sinceLast |-> ThrottleMs,
   sinceInput |-> -1, burst |-> 0, runs |-> 0, sinceRun |-> -1, gap |-> -1, owed |-> FALSE]

\* The page as its scripts leave it: the state of 01_skeleton.js, no file yet
PageLoaded ==
  /\ inputs = EmptyInputs
  /\ historical = Null
  /\ dcf = Null
  /\ clockYear = StartYear
  /\ screen = "upload"
  /\ fields = NoFields
  /\ sliders = NoSliders
  /\ scenarioBase = NoScenarioBase
  /\ learningState = [baseInputs |-> Null, baseOutputs |-> Null, isBaseAutoCaptured |-> FALSE]
  /\ tables = [rendered |-> FALSE]
  /\ tornado = <<>>
  /\ panel = [kind |-> "none"]
  /\ calls = <<>>
  /\ recalcTimer = FALSE
  /\ timing = NoTimers

\* No function is called on its own
NoProbe == [fn |-> "none"]

Init == PageLoaded /\ probe = NoProbe

\* The record of a calculateDCF call: its arguments as passed, the year the
\* clock showed and the heap after
DcfCall(inp, historicalData, year, after) ==
  [fn |-> "calculateDCF", inputs |-> inp, historicalData |-> historicalData,
   year |-> year, after |-> after]

\* The records of the calculateDCFPure calls of a list of reruns
PureCalls(reruns, historicalData, stDcf) ==
  [i \in 1..Len(reruns) |->
     [fn |-> "calculateDCFPure", inputs |-> reruns[i].inputs,
      historicalData |-> historicalData, dcf |-> stDcf, after |-> reruns[i].after]]

\* The heap once the last engine call of a handler has returned
LastHeap(call, reruns) == IF Len(reruns) = 0 THEN call ELSE reruns[Len(reruns)].after

\* renderScenario() has run: the snapshot, the sliders and the tornado it leaves
ScenarioRendered(scen) ==
  /\ scenarioBase' = scen.scenarioBase
  /\ sliders' = scen.sliders
  /\ tornado' = scen.tornado

\* reader.onload of ingestFile: the pipeline from normalizeData to hideUploadScreen
IngestFile(file) ==
  /\ screen = "upload"
  /\ \E h \in {computeDerivedMetrics(normalizeData(historical, file))} :
     \E inp \in {buildDefaultInputs(inputs, h)} :
     \E call \in {AfterCalculateDCF(inp, h, clockYear)} :
       /\ inputs' = call.inputs
       /\ historical' = call.historicalData
       /\ dcf' = call.dcf
       /\ fields' = renderAssumptionsPanel(call.inputs)
       /\ tables' = renderSensitivity(call.inputs, call.historicalData, call.dcf)
       /\ ScenarioRendered(renderScenario(call.inputs, call.historicalData, call.dcf,
                                          scenarioBase))
       /\ calls' = <<DcfCall(inp, h, clockYear, call)>>
  /\ panel' = [kind |-> "placeholder"]
  /\ screen' = "dashboard"
  /\ UNCHANGED <<probe, timing, clockYear, learningState, recalcTimer>>

\* The `input` listeners of an assumption field: the live WACC display of the
\* component fields, then recalculateDebounced
OnFieldInput(key, txt) ==
  /\ fields.rendered
  /\ fields.value[key] # txt
  /\ fields' = IF key \in WaccComponentKeys
               THEN [fields EXCEPT !.value[key] = txt,
                                   !.value.wacc =
                                     LiveWaccDisplay(inputs, [fields EXCEPT !.value[key] = txt])]
               ELSE [fields EXCEPT !.value[key] = txt]
  /\ recalcTimer' = TRUE
  /\ UNCHANGED <<inputs, historical, dcf, clockYear, screen, sliders, scenarioBase,
                 learningState, tables, tornado, panel, calls>>

\* An input event of an assumption field, the time it takes place left open
FieldInput(key, txt) == OnFieldInput(key, txt) /\ UNCHANGED <<probe, timing>>

\* The base case captured anew by every successful run
AutoCaptureEveryRun(ls, stInputs, stDcf) ==
  IF DcfValid(stDcf)
  THEN [captureBaseCase(ls, stInputs, stDcf) EXCEPT !.isBaseAutoCaptured = TRUE]
  ELSE ls

\* Auto-capture base case on first successful run
AutoCapture(ls, stInputs, stDcf) ==
  IF ls.baseInputs = Null /\ DcfValid(stDcf)
  THEN [captureBaseCase(ls, stInputs, stDcf) EXCEPT !.isBaseAutoCaptured = TRUE]
  ELSE ls

\* recalculate(), which the debounce timer calls
recalculate ==
  /\ recalcTimer
  /\ \E inp \in {collectInputs(inputs, fields)} :
     \E call \in {AfterCalculateDCF(inp, historical, clockYear)} :
     \E ls \in {AutoCapture(learningState, call.inputs, call.dcf)} :
     \E reruns \in {LearningPanelCalls(ls, call.inputs, call.historicalData, call.dcf)} :
       /\ inputs' = call.inputs
       /\ historical' = LastHeap(call, reruns).historicalData
       /\ dcf' = LastHeap(call, reruns).dcf
       /\ learningState' = ls
       /\ tables' = renderSensitivity(call.inputs, call.historicalData, call.dcf)
       /\ ScenarioRendered(renderScenario(call.inputs, call.historicalData, call.dcf,
                                          scenarioBase))
       /\ fields' = [fields EXCEPT !.value.wacc =
                                     inputDisplayValue(WaccField, call.inputs.wacc)]
       /\ panel' = updateLearningPanel(ls, call.inputs, call.historicalData, call.dcf, reruns)
       /\ calls' = <<DcfCall(inp, historical, clockYear, call)>>
                     \o PureCalls(reruns, call.historicalData, call.dcf)
  /\ recalcTimer' = FALSE
  /\ UNCHANGED <<clockYear, screen>>

\* The debounce timer fires, the time it takes place left open
Recalculate == recalculate /\ UNCHANGED <<probe, timing>>

\* The function _onSliderChange wraps, run while the sliders stand at `moved`:
\* it reads every slider anew
onSliderChange(moved) ==
  \E inp \in {SliderInputs(inputs, moved)} :
  \E call \in {AfterCalculateDCF(inp, historical, clockYear)} :
    /\ inputs' = call.inputs
    /\ historical' = call.historicalData
    /\ dcf' = call.dcf
    /\ tornado' = computeTornado(call.inputs, call.historicalData)
    /\ calls' = <<DcfCall(inp, historical, clockYear, call)>>

\* A slider is dragged to v and the throttled _onSliderChange runs, at once or
\* when the throttle's timer fires
SliderInput(key, v) ==
  /\ sliders.rendered
  /\ SliderSanitize(SliderOf(key), v) # sliders.value[key]
  /\ \E moved \in {[sliders EXCEPT !.value[key] = SliderSanitize(SliderOf(key), v)]} :
       /\ sliders' = moved
       /\ onSliderChange(moved)
  /\ UNCHANGED <<probe, timing, clockYear, screen, fields, scenarioBase, learningState, tables,
                 panel, recalcTimer>>

\* The click listener of btn-reset-scenario
ResetScenario ==
  /\ sliders.rendered
  /\ \E inp \in {Spread(inputs, scenarioBase.inputs)} :
     \E call \in {AfterCalculateDCF(inp, historical, clockYear)} :
       /\ inputs' = call.inputs
       /\ historical' = call.historicalData
       /\ dcf' = call.dcf
       /\ sliders' = buildSliderRows(scenarioBase.inputs)
       /\ tornado' = computeTornado(call.inputs, call.historicalData)
       /\ calls' = <<DcfCall(inp, historical, clockYear, call)>>
  /\ UNCHANGED <<probe, timing, clockYear, screen, fields, scenarioBase, learningState, tables, panel,
                 recalcTimer>>

\* The click listener of btn-set-base: onSetBaseCase()
SetBaseCase ==
  /\ fields.rendered
  /\ \E ls \in {onSetBaseCase(learningState, inputs, dcf)} :
     \E reruns \in {LearningPanelCalls(ls, inputs, historical, dcf)} :
       /\ learningState' = ls
       /\ panel' = updateLearningPanel(ls, inputs, historical, dcf, reruns)
       /\ calls' = PureCalls(reruns, historical, dcf)
       /\ historical' = IF Len(reruns) = 0 THEN historical
                        ELSE reruns[Len(reruns)].after.historicalData
       /\ dcf' = IF Len(reruns) = 0 THEN dcf ELSE reruns[Len(reruns)].after.dcf
  /\ UNCHANGED <<probe, timing, inputs, clockYear, screen, fields, sliders, scenarioBase, tables, tornado,
                 recalcTimer>>

\* A new year begins
Tick ==
  /\ clockYear < StartYear + MaxTicks
  /\ clockYear' = clockYear + 1
  /\ UNCHANGED <<probe, timing, inputs, historical, dcf, screen, fields, sliders, scenarioBase,
                 learningState, tables, tornado, panel, calls, recalcTimer>>

Next ==
  \/ \E file \in Files : IngestFile(file)
  \/ \E edit \in FieldEdits : FieldInput(edit[1], edit[2])
  \/ Recalculate
  \/ \E move \in SliderMoves : SliderInput(move[1], move[2])
  \/ ResetScenario
  \/ Tick

Spec == Init /\ [][Next]_vars

\* The learning overlay at work on one file: the fields edited are the terminal
\* growth rate ("4.0", "9.0") and the cost of equity ("12.0"), the base case is
\* set by hand, one slider is dragged.
LearningEdits ==
  {<<"terminalGrowth", Typed(40)>>, <<"terminalGrowth", Typed(90)>>,
   <<"costOfEquity", Typed(120)>>}

LearningMoves == {<<"ebitMargin", Lit(15, -2)>>}

NextLearning ==
  \/ IngestFile(ProfitableFile)
  \/ \E edit \in LearningEdits : FieldInput(edit[1], edit[2])
  \/ Recalculate
  \/ SetBaseCase
  \/ \E move \in LearningMoves : SliderInput(move[1], move[2])
  \/ ResetScenario

SpecLearning == Init /\ [][NextLearning]_vars

\* Files whose revenue line is of no use as a base: negative in every year,
\* zero in every year, and not found in the file
NegativeRevenueFile ==
  [years |-> YearLabels, rows |-> [NoRows EXCEPT !.revenue = Series(-100, -100, -100)]]

ZeroRevenueFile ==
  [years |-> YearLabels, rows |-> [NoRows EXCEPT !.revenue = Series(0, 0, 0)]]

NoRevenueFile ==
  [years |-> YearLabels, rows |-> [NoRows EXCEPT !.ebit = Series(96, 108, 120)]]

RevenueFiles == {NegativeRevenueFile, ZeroRevenueFile, NoRevenueFile}

NextRevenue ==
  \/ \E file \in RevenueFiles : IngestFile(file)
  \/ \E edit \in FieldEdits : FieldInput(edit[1], edit[2])
  \/ Recalculate
  \/ \E move \in SliderMoves : SliderInput(move[1], move[2])
  \/ ResetScenario
  \/ Tick

SpecRevenue == Init /\ [][NextRevenue]_vars

\* The WACC field at work on one file: "12.0" and "15.0" are typed into it,
\* "12.0" into the cost of equity and "4.0" into the terminal growth rate
WaccEdits ==
  {<<"wacc", Typed(120)>>, <<"wacc", Typed(150)>>, <<"costOfEquity", Typed(120)>>,
   <<"terminalGrowth", Typed(40)>>}

NextWacc ==
  \/ IngestFile(ProfitableFile)
  \/ \E edit \in WaccEdits : FieldInput(edit[1], edit[2])
  \/ Recalculate
  \/ Tick

SpecWacc == Init /\ [][NextWacc]_vars

\* ------------------------------------------------------------------------
\* The timers by the millisecond: recalculateDebounced and throttle
\* ------------------------------------------------------------------------

\* A span of time, kept up to `most`; -1 (nothing to measure from) stays
Elapsed(span, most) == IF span = -1 THEN -1 ELSE MinInt(span + Quantum, most)

\* What remains of a timer after a step of time; -1 (none pending) stays
Remaining(timer) == IF timer <= 0 THEN timer ELSE IF timer < Quantum THEN 0 ELSE timer - Quantum

\* Time passes by one step. A timer that is due runs before time goes on; an
\* event that is due at the same instant may be handled before or after it.
TimePasses ==
  /\ timing.recalcIn # 0
  /\ timing.throttleIn # 0
  /\ timing' = [timing EXCEPT !.recalcIn = Remaining(@),
                              !.throttleIn = Remaining(@),
                              !.sinceLast = Elapsed(@, ThrottleMs),
                              !.sinceInput = Elapsed(@, RecalcDelay + Quantum),
                              !.sinceRun = Elapsed(@, ThrottleMs)]
  /\ UNCHANGED <<inputs, historical, dcf, clockYear, screen, fields, sliders, scenarioBase,
                 learningState, tables, tornado, panel, calls, recalcTimer, probe>>

\* recalculateDebounced(), on the timers t: clearTimeout, then setTimeout
recalculateDebouncedForgetful(t) ==
  IF t.recalcIn >= 0 THEN t ELSE [t EXCEPT !.recalcIn = RecalcDelay]

recalculateDebounced(t) == [t EXCEPT !.recalcIn = RecalcDelay]

\* An input event of an assumption field, now
TimedFieldInput(key, txt) ==
  /\ OnFieldInput(key, txt)
  /\ timing' = [recalculateDebounced(timing) EXCEPT
                  !.burst = IF timing.sinceInput \in 0..(RecalcDelay - 1) THEN MinInt(@ + 1, 2) ELSE 1,
                  !.sinceInput = 0,
                  !.runs = 0]
  /\ UNCHANGED probe

\* The timer of recalculateDebounced is due and is taken off the timers
RecalcTimerRuns ==
  /\ timing.recalcIn = 0
  /\ timing' = [timing EXCEPT !.recalcIn = -1, !.runs = MinInt(@ + 1, 2)]

\* The timer of recalculateDebounced is due: recalculate()
DebounceTimerFires ==
  /\ RecalcTimerRuns
  /\ recalculate
  /\ UNCHANGED probe

\* What is typed into the terminal growth and the revenue growth field
DebounceEdits ==
  {<<"terminalGrowth", Typed(30)>>, <<"terminalGrowth", Typed(40)>>,
   <<"revenueGrowth", Typed(60)>>}

InputEvent == \E edit \in DebounceEdits : TimedFieldInput(edit[1], edit[2])

NextDebounce ==
  \/ IngestFile(ProfitableFile)
  \/ InputEvent
  \/ DebounceTimerFires
  \/ TimePasses

\* The event loop runs a timer that is due, and time goes on. A due timer of
\* recalculateDebounced is run by DebounceTimerFires and by no other step, and
\* recalculate() is enabled whenever it is due (TimerIsPending), so the
\* fairness of that step is stated on the timers.
SpecDebounce ==
  Init /\ [][NextDebounce]_vars /\ WF_timing(RecalcTimerRuns) /\ WF_vars(TimePasses)

\* throttle(fn, ms), on the timers t: `remaining` of a call made now
ThrottleRemainingOfMs(t) == ThrottleMs

ThrottleRemaining(t) == ThrottleMs - t.sinceLast

\* fn runs now, in the call or from the timer: last = now
FnRuns(t) ==
  [t EXCEPT !.throttleIn = -1, !.sinceLast = 0, !.gap = t.sinceRun, !.sinceRun = 0,
            !.owed = FALSE]

\* The input listener of a slider, now: the slider stands at v and the
\* throttled _onSliderChange is called, which runs fn or sets the timer anew
ThrottledSliderInput(key, v) ==
  /\ sliders.rendered
  /\ SliderSanitize(SliderOf(key), v) # sliders.value[key]
  /\ IF ThrottleRemaining(timing) <= 0
     THEN onSliderChange([sliders EXCEPT !.value[key] = SliderSanitize(SliderOf(key), v)])
     ELSE UNCHANGED <<inputs, historical, dcf, tornado, calls>>
  /\ timing' = IF ThrottleRemaining(timing) <= 0
               THEN FnRuns(timing)
               ELSE [timing EXCEPT !.throttleIn = ThrottleRemaining(timing), !.owed = TRUE]
  /\ sliders' = [sliders EXCEPT !.value[key] = SliderSanitize(SliderOf(key), v)]
  /\ UNCHANGED <<probe, clockYear, screen, fields, scenarioBase, learningState, tables,
                 panel, recalcTimer>>

\* The timer of the throttle is due and is taken off the timers
ThrottleTimerRuns ==
  /\ timing.throttleIn = 0
  /\ timing' = FnRuns(timing)

\* The timer of the throttle is due: fn runs and reads the sliders as they stand
ThrottleTimerFires ==
  /\ timing.throttleIn = 0
  /\ onSliderChange(sliders)
  /\ ThrottleTimerRuns
  /\ UNCHANGED <<probe, clockYear, screen, fields, sliders, scenarioBase, learningState,
                 tables, panel, recalcTimer>>

\* Where the WACC, the terminal growth and the revenue growth slider are dragged
ThrottleMoves ==
  {<<"wacc", Lit(6, -2)>>, <<"wacc", Lit(10, -2)>>, <<"terminalGrowth", Lit(4, -2)>>,
   <<"revenueGrowth", Lit(8, -2)>>}

NextThrottle ==
  \/ IngestFile(ProfitableFile)
  \/ \E move \in ThrottleMoves : ThrottledSliderInput(move[1], move[2])
  \/ ThrottleTimerFires
  \/ TimePasses

\* The event loop runs a timer that is due, and time goes on. A due timer of
\* the throttle is run by ThrottleTimerFires and by no other step, and fn can
\* always run, so the fairness of that step is stated on the timers.
SpecThrottle ==
  Init /\ [][NextThrottle]_vars /\ WF_timing(ThrottleTimerRuns) /\ WF_vars(TimePasses)

\* ------------------------------------------------------------------------
\* Functions called on their own
\* ------------------------------------------------------------------------

\* Everything but the probe
page ==
  <<inputs, historical, dcf, clockYear, screen, fields, sliders, scenarioBase,
    learningState, tables, tornado, panel, calls, recalcTimer, timing>>

\* The values a driver holds in the base case and now: absent, zero, rates
\* 4 and 5 basis points apart, amounts 0.45% and 0.5% apart, of either sign
DriverValues ==
  {Null, Undefined, Zero, Lit(25, -3), Lit(254, -4), Lit(255, -4),
   Lit(200, 0), Lit(2009, -1), Lit(201, 0), Lit(-200, 0), Lit(-201, 0)}

\* hasDriverChanged(driverDef, baseInputs, currentInputs) is called
DriverProbes ==
  {[fn |-> "hasDriverChanged", pc |-> "called", driverDef |-> ATTRIBUTION_DRIVERS[j],
    baseInputs    |-> [EmptyInputs EXCEPT ![ATTRIBUTION_DRIVERS[j].key] = bv],
    currentInputs |-> [EmptyInputs EXCEPT ![ATTRIBUTION_DRIVERS[j].key] = cv]] :
     j \in 1..Len(ATTRIBUTION_DRIVERS), bv \in DriverValues, cv \in DriverValues}

\* hasDriverChanged returns
ReturnHasDriverChanged ==
  /\ probe.fn = "hasDriverChanged"
  /\ probe.pc = "called"
  /\ probe' = [fn |-> "hasDriverChanged", pc |-> "returned",
               driverDef |-> probe.driverDef, baseInputs |-> probe.baseInputs,
               currentInputs |-> probe.currentInputs,
               result |-> hasDriverChanged(probe.driverDef, probe.baseInputs,
                                           probe.currentInputs)]
  /\ UNCHANGED page

\* The cash flows of the streams of two
CashValues == {Lit(-1000, 0), Lit(-100, 0), Zero, One, Lit(110, 0)}

\* The cash-flow streams solveIRR is called with: every stream of two cash
\* flows, an investment repaid over three years, a stream whose NPV is zero at
\* the first midpoint, and a stream of zeros
CashFlowStreams ==
  {<<a, b>> : a \in CashValues, b \in CashValues}
    \cup {<<Lit(-1000, 0), Lit(300, 0), Lit(400, 0), Lit(500, 0)>>,
          <<Lit(-1, 0), Lit(5501, -3)>>,
          <<Zero, Zero, Zero>>}

\* solveIRR(cashFlows) is called: let lo = -0.999, hi = 10.0
IrrProbes ==
  {[fn |-> "solveIRR", pc |-> "called", cashFlows |-> cf, lo |-> IrrLo, hi |-> IrrHi,
    mid |-> Undefined, i |-> 0, result |-> Undefined] : cf \in CashFlowStreams}

\* if (npv(lo) * npv(hi) > 0) return null;
VerifySignChange ==
  /\ probe.fn = "solveIRR"
  /\ probe.pc = "called"
  /\ probe' = IF Gt(Mul(IrrNpv(probe.cashFlows, probe.lo), IrrNpv(probe.cashFlows, probe.hi)),
                    Zero)
              THEN [probe EXCEPT !.pc = "returned", !.result = Null]
              ELSE [probe EXCEPT !.pc = "loop"]
  /\ UNCHANGED page

\* The record after one pass of the loop with the midpoint mid
IrrAfterPass(p, mid, fMid) ==
  IF Lt(MathAbs(fMid), IrrTol)
  THEN [p EXCEPT !.mid = mid, !.pc = "returned", !.result = mid]
  ELSE IF Lt(Mul(IrrNpv(p.cashFlows, p.lo), fMid), Zero)
  THEN [p EXCEPT !.mid = mid, !.hi = mid, !.i = p.i + 1]
  ELSE [p EXCEPT !.mid = mid, !.lo = mid, !.i = p.i + 1]

\* One pass of the loop of solveIRR; its break returns mid
Bisect ==
  /\ probe.fn = "solveIRR"
  /\ probe.pc = "loop"
  /\ probe.i < IrrMaxIter
  /\ \E mid \in {Div(Add(probe.lo, probe.hi), Lit(2, 0))} :
       probe' = IrrAfterPass(probe, mid, IrrNpv(probe.cashFlows, mid))
  /\ UNCHANGED page

\* i = maxIter: return mid
ReturnMid ==
  /\ probe.fn = "solveIRR"
  /\ probe.pc = "loop"
  /\ probe.i = IrrMaxIter
  /\ probe' = [probe EXCEPT !.pc = "returned", !.result = probe.mid]
  /\ UNCHANGED page

\* state.historical as the upload of ProfitableFile leaves it
EngineHistorical == computeDerivedMetrics(normalizeData(Null, ProfitableFile))

\* The assumptions the engine is called with: the defaults of that file, with
\* forecastYears -1, 0, 1 or 3, each bridge term and daPct absent or set, and
\* the share count null or set
EngineInputs ==
  {[buildDefaultInputs(EmptyInputs, EngineHistorical)
      EXCEPT !.forecastYears = n, !.netDebt = nd, !.preferredEquity = pe,
             !.minorityInterest = mi, !.cashAndEquiv = ca, !.sharesOutstanding = sh,
             !.daPct = da] :
     n \in {Lit(-1, 0), Zero, One, Lit(3, 0)},
     nd \in {Undefined, Null, Lit(200, 0)},
     pe \in {Undefined, Lit(50, 0)},
     mi \in {Undefined, Lit(30, 0)},
     ca \in {Undefined, Lit(100, 0)},
     sh \in {Null, Lit(100, 0)},
     da \in {Undefined, Lit(4, -2)}}

\* calculateDCF(inputs, historicalData) or calculateDCFPure(inputs,
\* historicalData) is called
EngineProbes ==
  {[fn |-> f, pc |-> "called", inputs |-> inp, historicalData |-> EngineHistorical,
    result |-> Undefined] : f \in {"calculateDCF", "calculateDCFPure"}, inp \in EngineInputs}

\* calculateDCF returns: state.dcf holds what it returns
ReturnCalculateDCF ==
  /\ probe.fn = "calculateDCF"
  /\ probe.pc = "called"
  /\ \E call \in {AfterCalculateDCF(probe.inputs, probe.historicalData, clockYear)} :
       /\ probe' = [probe EXCEPT !.pc = "returned", !.result = call.dcf]
       /\ dcf' = call.dcf
  /\ UNCHANGED <<inputs, historical, clockYear, screen, fields, sliders, scenarioBase,
                 learningState, tables, tornado, panel, calls, recalcTimer, timing>>

\* calculateDCFPure returns
ReturnCalculateDCFPure ==
  /\ probe.fn = "calculateDCFPure"
  /\ probe.pc = "called"
  /\ \E call \in {AfterCalculateDCFPure(probe.inputs, probe.historicalData, dcf)} :
       /\ probe' = [probe EXCEPT !.pc = "returned", !.result = call.returned]
       /\ dcf' = call.dcf
  /\ UNCHANGED <<inputs, historical, clockYear, screen, fields, sliders, scenarioBase,
                 learningState, tables, tornado, panel, calls, recalcTimer, timing>>

\* state.inputs as a caller has set it before the defaults are built: each of
\* five fields left out, null, or set (two of them to 0)
CallerInputs ==
  {[EmptyInputs EXCEPT !.forecastYears = n, !.wacc = w, !.currentPrice = cp,
                       !.sharesOutstanding = sh, !.netDebt = nd] :
     n \in {Undefined, Null, Lit(3, 0)},
     w \in {Undefined, Null, Lit(2, -1)},
     cp \in {Undefined, Null, Zero},
     sh \in {Undefined, Null, Lit(50, 0)},
     nd \in {Undefined, Null, Zero}}

\* state.historical: not loaded, or as the upload of a file leaves it
DefaultsHistoricals ==
  {Null, EngineHistorical, computeDerivedMetrics(normalizeData(Null, LossMakingFile))}

\* buildDefaultInputs(historicalData) is about to be called, twice
DefaultsProbes ==
  {[fn |-> "buildDefaultInputs", n |-> 0, callerInputs |-> ci, historicalData |-> h,
    afterFirst |-> Undefined] : ci \in CallerInputs, h \in DefaultsHistoricals}

\* buildDefaultInputs(historicalData) runs on state.inputs, which is what the
\* caller set before the first call
CallBuildDefaultInputs ==
  /\ probe.fn = "buildDefaultInputs"
  /\ probe.n < 2
  /\ \E after \in {buildDefaultInputs(IF probe.n = 0 THEN probe.callerInputs ELSE inputs,
                                       probe.historicalData)} :
       /\ inputs' = after
       /\ probe' = [probe EXCEPT !.n = probe.n + 1,
                                 !.afterFirst = IF probe.n = 0 THEN after ELSE @]
  /\ UNCHANGED <<historical, dcf, clockYear, screen, fields, sliders, scenarioBase,
                 learningState, tables, tornado, panel, calls, recalcTimer, timing>>

InitFunctions ==
  PageLoaded /\ probe \in DriverProbes \cup IrrProbes \cup EngineProbes \cup DefaultsProbes

NextFunctions ==
  \/ ReturnHasDriverChanged
  \/ VerifySignChange
  \/ Bisect
  \/ ReturnMid
  \/ ReturnCalculateDCF
  \/ ReturnCalculateDCFPure
  \/ CallBuildDefaultInputs

SpecFunctions == InitFunctions /\ [][NextFunctions]_vars

\* ------------------------------------------------------------------------
\* Properties
\* ------------------------------------------------------------------------

\* The calculateDCF call of the last handler that made one
HasDcfCall == Len(calls) > 0 /\ calls[1].fn = "calculateDCF"

\* result is the validation failure for inp: invalid, with the message that
\* names WACC and the terminal growth rate and carries both rates, and with
\* neither a forecast nor a summary
RejectedForWacc(inp, result) ==
  /\ result.valid = FALSE
  /\ \E j \in 1..Len(result.errors) :
       /\ result.errors[j].text = "WACC (%) must exceed terminal growth rate (%)."
       /\ result.errors[j].args = <<ToFixed(Mul(inp.wacc, Lit(100, 0)), 1),
                                    ToFixed(Mul(inp.terminalGrowth, Lit(100, 0)), 1)>>
  /\ DOMAIN result = {"errors", "valid"}

\* C1: every calculateDCF call whose inputs have wacc <= terminalGrowth leaves
\* in state.dcf (which is what it returns) a result with valid = false whose
\* errors hold the message naming WACC and the terminal growth rate, and that
\* has no forecast and no summary.
C1_WaccGate ==
  HasDcfCall /\ Le(calls[1].inputs.wacc, calls[1].inputs.terminalGrowth)
    => RejectedForWacc(calls[1].inputs, calls[1].after.dcf)

\* calculateDCF was called with wacc = terminalGrowth and rejected the inputs
C1_Witness ==
  /\ HasDcfCall
  /\ calls[1].inputs.wacc = calls[1].inputs.terminalGrowth
  /\ ~NoMetrics(calls[1].historicalData)
  /\ ~calls[1].after.dcf.valid

\* The heap after call c holds the argument objects as they were passed
ArgumentsKept(c) ==
  /\ c.after.inputs = c.inputs
  /\ c.after.historicalData = c.historicalData
  /\ c.fn = "calculateDCFPure" => c.after.dcf = c.dcf

SameResultAgain(c) ==
  \A year \in StartYear..(StartYear + MaxTicks) :
    calculateDCF(c.inputs, c.historicalData, year) = c.after.dcf

TiesOut(result) ==
  /\ result.summary.enterpriseValue = Add(result.summary.npvFCF, result.summary.pvTerminal)
  /\ result.summary.npvFCF = SumTo(result.forecast.pvFCF, Len(result.forecast.pvFCF))

\* C4: in every valid result summary.enterpriseValue is summary.npvFCF +
\* summary.pvTerminal, and summary.npvFCF is the sum of forecast.pvFCF.
C4_TieOut == DcfValid(dcf) => TiesOut(dcf)

\* A valid result with several discounted cash flows and a terminal value
C4_Witness ==
  /\ DcfValid(dcf)
  /\ Len(dcf.forecast.pvFCF) > 1
  /\ Truthy(dcf.summary.pvTerminal)
  /\ Truthy(dcf.summary.npvFCF)

\* The rates the monotonicity of the enterprise value is probed at
WaccProbe == Lit(6, -2)

GrowthProbe == Lit(4, -2)

\* Every forecast free cash flow of a valid result is positive
PositiveCashFlows(result) ==
  /\ Len(result.forecast.fcf) >= 1
  /\ \A i \in 1..Len(result.forecast.fcf) : Gt(result.forecast.fcf[i], Zero)

\* other is a valid result whose enterprise value lies on the side of
\* result's that the order of the rates `lower` and `higher` demands, the
\* enterprise value falling from `lower` to `higher` when falling is TRUE
OrderedWith(result, other, rate, otherRate, falling) ==
  other.valid =>
    /\ Gt(otherRate, rate) =>
         IF falling
         THEN Lt(other.summary.enterpriseValue, result.summary.enterpriseValue)
         ELSE Gt(other.summary.enterpriseValue, result.summary.enterpriseValue)
    /\ Lt(otherRate, rate) =>
         IF falling
         THEN Gt(other.summary.enterpriseValue, result.summary.enterpriseValue)
         ELSE Lt(other.summary.enterpriseValue, result.summary.enterpriseValue)

\* The valid result stored for inp is ordered with the results of the inputs
\* that differ from inp in wacc alone and in terminalGrowth alone
Monotone(inp, historicalData, result) ==
  /\ OrderedWith(result,
                 calculateDCF([inp EXCEPT !.wacc = WaccProbe], historicalData, StartYear),
                 inp.wacc, WaccProbe, TRUE)
  /\ OrderedWith(result,
                 calculateDCF([inp EXCEPT !.terminalGrowth = GrowthProbe], historicalData,
                              StartYear),
                 inp.terminalGrowth, GrowthProbe, FALSE)

NullWhereInvalid(t) ==
  \A ri \in 1..Len(t.rowValues) : \A ci \in 1..Len(t.colValues) :
    IF Le(t.rowValues[ri], t.colValues[ci])
    THEN t.prices[ri][ci] = Null
    ELSE t.prices[ri][ci].k = "num"

\* Every cell of table t holds a number
Populated(t) ==
  \A ri \in 1..Len(t.rowValues) : \A ci \in 1..Len(t.colValues) :
    t.prices[ri][ci].k = "num"

\* C6: in the grids buildSensitivityTable builds for a valid model, a cell is
\* null exactly when its wacc is <= its terminalGrowth: in the WACC x terminal
\* growth grid those are the cells whose row value is <= the column value and
\* every other cell holds a price; the revenue growth x EBIT margin grid, whose
\* cells all keep the model's wacc and terminalGrowth, has no null cell.
C6_NullCells ==
  tables.rendered => NullWhereInvalid(tables.tableA) /\ Populated(tables.tableB)

\* A grid with a null cell: wacc below and wacc above terminalGrowth in the same table
C6_Witness ==
  /\ tables.rendered
  /\ \E ri \in 1..5 : \E ci \in 1..5 : tables.tableA.prices[ri][ci] = Null
  /\ \E ri \in 1..5 : \E ci \in 1..5 : tables.tableA.prices[ri][ci].k = "num"

\* The impliedPrice of the pure facade for the inputs merged with overrides o,
\* null when the facade's result is invalid
FacadePrice(stInputs, stHistorical, o) ==
  LET result == calculateDCFPure(Spread(stInputs, o), stHistorical)
  IN  IF result.valid THEN result.impliedPrice ELSE Null

\* The override sets sensitivityPrice is compared at
Overrides == {EmptyObj, Obj1("wacc", WaccProbe), Obj1("terminalGrowth", GrowthProbe)}

\* C7: for every override set o, sensitivityPrice(o) is the impliedPrice that
\* calculateDCFPure returns for { ...state.inputs, ...o } and state.historical,
\* and null when that result is invalid or its impliedPrice is null.
C7_SensitivityIsFacade ==
  screen = "dashboard" =>
    \A o \in Overrides :
      sensitivityPrice(inputs, historical, o) = FacadePrice(inputs, historical, o)

\* calculateDCFPure agrees with the result calculateDCF stored for the same arguments
PureAgrees(inp, historicalData, result) ==
  LET pure == calculateDCFPure(inp, historicalData)
  IN  /\ pure.valid = result.valid
      /\ result.valid =>
           /\ pure.enterpriseValue = result.summary.enterpriseValue
           /\ pure.equityValue = result.summary.equityValue
           /\ pure.impliedPrice = result.summary.impliedPrice
           /\ pure.irr = result.summary.irr
           /\ pure.pvTerminal = result.summary.pvTerminal
           /\ pure.terminalValue = result.summary.terminalValue
           /\ pure.npvFCF = result.summary.npvFCF

\* C8: for the arguments of every calculateDCF call, calculateDCFPure returns
\* valid exactly when calculateDCF did, and when valid its enterpriseValue,
\* equityValue, impliedPrice, irr, pvTerminal, terminalValue and npvFCF are
\* those of calculateDCF's summary.
C8_PureAgreesWithStateful ==
  HasDcfCall => PureAgrees(calls[1].inputs, calls[1].historicalData, calls[1].after.dcf)

\* A valid calculateDCF result with a price and an IRR
C8_Witness ==
  /\ HasDcfCall
  /\ calls[1].after.dcf.valid
  /\ calls[1].after.dcf.summary.impliedPrice.k = "num"
  /\ calls[1].after.dcf.summary.irr.k = "num"

\* entry e is what the definition of its driver gives: each delta is the price
\* with the driver moved by delta less the base price, where that price is not
\* null, and the spread is the sum of the absolute deltas
EntryAsDefined(basePrice, hi, lo, e) ==
  /\ hi # Null => e.hiDelta = Sub(hi, basePrice)
  /\ lo # Null => e.loDelta = Sub(lo, basePrice)
  /\ e.spread = Add(MathAbs(e.hiDelta), MathAbs(e.loDelta))

\* The entries of t are those of the drivers' definitions, for the state t was
\* computed in
EntriesAsDefined(t, stInputs, stHistorical) ==
  \A i \in 1..Len(t) :
    EntryAsDefined(sensitivityPrice(stInputs, stHistorical, EmptyObj),
                   sensitivityPrice(stInputs, stHistorical,
                     Obj1(t[i].key, Add(stInputs[t[i].key], SliderOf(t[i].key).delta))),
                   sensitivityPrice(stInputs, stHistorical,
                     Obj1(t[i].key, Sub(stInputs[t[i].key], SliderOf(t[i].key).delta))),
                   t[i])

\* t is in descending order of spread
DescendingSpread(t) ==
  \A i \in 1..Len(t) : \A j \in 1..Len(t) : i < j => Ge(t[i].spread, t[j].spread)

\* C9: what computeTornado returned is sorted by spread in descending order,
\* and for each entry spread = |hiDelta| + |loDelta|, hiDelta = price(driver +
\* delta) - price(base) and loDelta = price(driver - delta) - price(base), the
\* other inputs at their current values.
C9_TornadoSorted ==
  DescendingSpread(tornado) /\ EntriesAsDefined(tornado, inputs, historical)

\* A tornado of several entries with different spreads
C9_Witness ==
  /\ Len(tornado) > 1
  /\ tornado[1].spread # tornado[Len(tornado)].spread
  /\ Truthy(tornado[Len(tornado)].spread)

\* t has exactly one entry for each swept driver, and an entry's delta is 0
\* in a direction whose price is null
OnePerDriver(t, stInputs, stHistorical) ==
  /\ Len(t) = Len(SweptSliders)
  /\ \A k \in 1..Len(SweptSliders) :
       \E i \in 1..Len(t) :
         /\ t[i].key = SweptSliders[k].key
         /\ sensitivityPrice(stInputs, stHistorical,
              Obj1(t[i].key, Add(stInputs[t[i].key], SweptSliders[k].delta))) = Null
              => t[i].hiDelta = Zero
         /\ sensitivityPrice(stInputs, stHistorical,
              Obj1(t[i].key, Sub(stInputs[t[i].key], SweptSliders[k].delta))) = Null
              => t[i].loDelta = Zero

\* C10: whenever the model is valid, what computeTornado returned has exactly
\* one entry for every slider of SCENARIO_SLIDERS but exitMultiple, and a
\* direction whose perturbed model is invalid is scored 0.
C10_OneEntryPerDriver == DcfValid(dcf) => OnePerDriver(tornado, inputs, historical)

\* ------------------------------------------------------------------------
\* Properties of the learning overlay
\* ------------------------------------------------------------------------

\* The handler that ran last drew an attribution from its reruns
HasAttribution ==
  /\ panel.kind = "attribution"
  /\ Len(calls) > 0
  /\ calls[Len(calls)].fn = "calculateDCFPure"

\* The records of the calculateDCFPure calls of the handler that ran last
PureCallsOf(cs) == SelectSeq(cs, LAMBDA c : c.fn = "calculateDCFPure")

\* x is the base case with the one field key at its current value
IsolatedChange(x, baseInputs, currentInputs, key) ==
  \A k \in InputKeys : x[k] = IF k = key THEN currentInputs[k] ELSE baseInputs[k]

OneAtATime(ls, currentInputs, reruns, impacts) ==
  /\ \A i \in 1..Len(reruns) :
       \E j \in 1..Len(ATTRIBUTION_DRIVERS) :
         /\ hasDriverChanged(ATTRIBUTION_DRIVERS[j], ls.baseInputs, currentInputs)
         /\ IsolatedChange(reruns[i].inputs, ls.baseInputs, currentInputs,
                           ATTRIBUTION_DRIVERS[j].key)
  /\ \A j \in 1..Len(impacts) :
       \E i \in 1..Len(reruns) :
         /\ IsolatedChange(reruns[i].inputs, ls.baseInputs, currentInputs, impacts[j].key)
         /\ reruns[i].after.returned.valid
         /\ impacts[j].evImpact = Sub(reruns[i].after.returned.enterpriseValue,
                                      ls.baseOutputs.enterpriseValue)

\* C11: every rerun of an attribution evaluates the base-case inputs with one
\* changed driver alone at its current value, every other field as in the base
\* case, and each reported evImpact is the enterpriseValue of the rerun of its
\* driver minus the enterpriseValue of the base case.
C11_OneFieldAtATime ==
  HasAttribution
    => OneAtATime(learningState, inputs, PureCallsOf(calls), panel.attribution.impacts)

\* An attribution over two changed drivers, each with its own rerun and impact
C11_Witness ==
  /\ HasAttribution
  /\ Len(PureCallsOf(calls)) >= 2
  /\ Len(panel.attribution.impacts) >= 2
  /\ panel.attribution.impacts[1].key # panel.attribution.impacts[2].key
  /\ panel.attribution.impacts[1].evImpact # Zero
  /\ panel.attribution.impacts[2].evImpact # Zero

\* The number of entries of impacts for the driver key
EntriesFor(impacts, key) == Cardinality({i \in 1..Len(impacts) : impacts[i].key = key})

OnePerChangedDriver(ls, currentInputs, impacts) ==
  \A j \in 1..Len(ATTRIBUTION_DRIVERS) :
    EntriesFor(impacts, ATTRIBUTION_DRIVERS[j].key) =
      IF hasDriverChanged(ATTRIBUTION_DRIVERS[j], ls.baseInputs, currentInputs) THEN 1 ELSE 0

\* C12: the impacts of an attribution hold exactly one entry for every driver
\* of ATTRIBUTION_DRIVERS that hasDriverChanged reports as changed between the
\* base case and the current inputs, and none for an unchanged driver.
C12_OneEntryPerChangedDriver ==
  HasAttribution => OnePerChangedDriver(learningState, inputs, panel.attribution.impacts)

RankedByImpact(impacts) ==
  \A i \in 1..Len(impacts) : \A j \in 1..Len(impacts) :
    i < j => Ge(MathAbs(impacts[i].evImpact), MathAbs(impacts[j].evImpact))

\* C13: the impacts of an attribution are in non-increasing order of
\* |evImpact|, and the attribution made at most 10 reruns of the valuation.
C13_RankedAndCapped ==
  HasAttribution
    => RankedByImpact(panel.attribution.impacts) /\ Len(PureCallsOf(calls)) <= 10

\* An attribution whose larger impact belongs to the driver that comes later
\* in ATTRIBUTION_DRIVERS
C13_Witness ==
  /\ HasAttribution
  /\ Len(panel.attribution.impacts) = 2
  /\ panel.attribution.impacts[1].key = "terminalGrowth"
  /\ panel.attribution.impacts[2].key = "wacc"
  /\ Gt(MathAbs(panel.attribution.impacts[1].evImpact),
        MathAbs(panel.attribution.impacts[2].evImpact))

\* This step is an evaluation: a handler called calculateDCF
Evaluated ==
  /\ <<inputs, dcf, calls>>' # <<inputs, dcf, calls>>
  /\ Len(calls') > 0
  /\ calls'[1].fn = "calculateDCF"

\* ls holds stInputs and the outputs of the valid result stDcf
SnapshotOf(ls, stInputs, stDcf) ==
  /\ ls.baseInputs = stInputs
  /\ ls.baseOutputs # Null
  /\ \A f \in {"enterpriseValue", "equityValue", "impliedPrice", "irr", "pvTerminal",
                "terminalValue", "npvFCF"} : ls.baseOutputs[f] = stDcf.summary[f]

\* C15: the first evaluation that yields a valid result while there is no
\* base case -- whichever handler makes it: file ingestion, recalculation,
\* slider change or scenario reset -- captures that evaluation's inputs and
\* outputs as the base case and sets isBaseAutoCaptured, and the flag then
\* stays set until a step that sets the base case explicitly.
C15_AutoCaptureAtFirstValid ==
  [][/\ (Evaluated /\ learningState.baseInputs = Null /\ DcfValid(dcf'))
         => (SnapshotOf(learningState', inputs', dcf') /\ learningState'.isBaseAutoCaptured)
     /\ (learningState.isBaseAutoCaptured /\ ~learningState'.isBaseAutoCaptured)
         => learningState' = onSetBaseCase(learningState, inputs, dcf)]_vars

\* ls is the explicit snapshot of stInputs and stDcf: the inputs, the outputs
\* of a valid result (none when there is no valid result), the flag cleared
ExplicitSnapshot(ls, stInputs, stDcf) ==
  /\ ls.baseInputs = stInputs
  /\ IF DcfValid(stDcf) THEN SnapshotOf(ls, stInputs, stDcf) ELSE ls.baseOutputs = Null
  /\ ~ls.isBaseAutoCaptured

\* C16: a click on Set Base Case leaves a snapshot of the current inputs and
\* the current outputs with isBaseAutoCaptured cleared, whatever snapshot there
\* was before, and a second click right after it leaves the same snapshot.
C16_SetBaseCaseOverwrites ==
  [][SetBaseCase
       => /\ ExplicitSnapshot(learningState', inputs, dcf)
          /\ <<inputs, dcf>>' = <<inputs, dcf>>
          /\ onSetBaseCase(learningState', inputs', dcf') = learningState']_vars

\* An explicit snapshot of inputs that a recalculation produced, so that the
\* click replaced the snapshot that recalculation had left or found
C16_Witness ==
  /\ learningState.baseInputs = inputs
  /\ learningState.baseOutputs # Null
  /\ ~learningState.isBaseAutoCaptured
  /\ inputs.costOfEquity = Lit(12, -2)
  /\ calls = <<>>

\* C17: once there is a base case, a step changes learningState.baseInputs or
\* learningState.baseOutputs only if it is a click on Set Base Case: no
\* recalculation, slider change, scenario reset or field edit changes them.
C17_BaseCaseKept ==
  [][learningState.baseInputs # Null
       => \/ /\ learningState'.baseInputs = learningState.baseInputs
             /\ learningState'.baseOutputs = learningState.baseOutputs
          \/ SetBaseCase]_vars

\* A base case that a later recalculation, with other inputs and a valid
\* result of its own, has left as it was
C17_Witness ==
  /\ learningState.baseInputs # Null
  /\ learningState.baseOutputs # Null
  /\ HasAttribution
  /\ DcfValid(dcf)
  /\ learningState.baseInputs # inputs
  /\ learningState.baseOutputs.enterpriseValue # dcf.summary.enterpriseValue

\* C28: in every state of the learning overlay the base case has inputs if and
\* only if it has outputs.
C28_BaseInputsWithOutputs ==
  (learningState.baseInputs # Null) <=> (learningState.baseOutputs # Null)

\* ------------------------------------------------------------------------
\* Properties of the functions called on their own
\* ------------------------------------------------------------------------

\* The change the thresholds ask for: 5 basis points for a rate, 0.5% of the
\* base value for an amount or a share count (from a base of zero every other
\* value is a change), and no change where a value is absent
ChangedAsSpecified(type, bv, cv) ==
  IF bv \in {Null, Undefined} \/ cv \in {Null, Undefined} THEN FALSE
  ELSE IF type = "rate" THEN ~Lt(MathAbs(Sub(cv, bv)), Lit(5, -4))
  ELSE IF bv = Zero THEN cv # Zero
  ELSE ~Lt(Div(MathAbs(Sub(cv, bv)), MathAbs(bv)), Lit(5, -3))

HasDriverResult == probe.fn = "hasDriverChanged" /\ probe.pc = "returned"

\* C14: hasDriverChanged returns true exactly when both values are present
\* and, for a rate, |current - base| >= 0.0005 or, for a dollar amount or a
\* share count, |current - base| / |base| >= 0.005.
C14_ChangeThresholds ==
  HasDriverResult
    => probe.result = ChangedAsSpecified(probe.driverDef.type,
                                         probe.baseInputs[probe.driverDef.key],
                                         probe.currentInputs[probe.driverDef.key])

\* A net debt that moved from 200 to 201, by 0.5% exactly, is reported changed
C14_Witness ==
  /\ HasDriverResult
  /\ probe.driverDef.type = "dollar"
  /\ probe.baseInputs[probe.driverDef.key] = Lit(200, 0)
  /\ probe.currentInputs[probe.driverDef.key] = Lit(201, 0)
  /\ probe.result

HasIrrResult == probe.fn = "solveIRR" /\ probe.pc = "returned"

\* The NPVs of the stream at the rates -0.999 and 10.0 have opposite signs
OppositeSignsAtEnds(cashFlows) ==
  Lt(Mul(IrrNpv(cashFlows, Lit(-999, -3)), IrrNpv(cashFlows, Lit(10, 0))), Zero)

\* C18: solveIRR returns null for every stream whose NPV at -0.999 and NPV at
\* 10.0 do not have opposite signs, streams of one sign and of zeros included.
C18_NullWithoutSignChange ==
  HasIrrResult /\ ~OppositeSignsAtEnds(probe.cashFlows) => probe.result = Null

\* The loop's checks agree with what the engine's solveIRR returns
IrrStepsAgree == HasIrrResult => probe.result = solveIRR(probe.cashFlows)

\* The loop has run at most 200 times
IrrBounded == probe.i <= 200

\* The loop goes on only past midpoints whose NPV is at least 1e-7 in size
IrrStopsAtFirstRoot ==
  probe.pc = "loop" /\ probe.i > 0
    => ~Lt(MathAbs(IrrNpv(probe.cashFlows, probe.mid)), Lit(1, -7))

\* A result that is not null is the last midpoint and lies in [-0.999, 10.0]
IrrResultInRange ==
  HasIrrResult /\ probe.result # Null
    => /\ probe.result = probe.mid
       /\ Ge(probe.result, Lit(-999, -3))
       /\ Le(probe.result, Lit(10, 0))

\* The NPVs at the two ends of the bracket do not have the same sign
IrrBracketHoldsSignChange ==
  probe.pc = "loop"
    => Le(Mul(IrrNpv(probe.cashFlows, probe.lo), IrrNpv(probe.cashFlows, probe.hi)), Zero)

\* C19: solveIRR ends within 200 passes, stops at the first midpoint whose NPV
\* is below 1e-7 in size, returns the last midpoint, within [-0.999, 10.0], and
\* keeps a bracket whose ends have NPVs of opposite sign throughout.
C19_BisectionKeepsBracket ==
  probe.fn = "solveIRR"
    => /\ IrrBounded
       /\ IrrStopsAtFirstRoot
       /\ IrrResultInRange
       /\ IrrBracketHoldsSignChange

\* ------------------------------------------------------------------------
\* Properties of the engine on files without a usable revenue line
\* ------------------------------------------------------------------------

\* The base-year revenue of the historical data is missing, zero or negative
BaseRevenueUnusable(historicalData) ==
  \/ ~NotNullish(lastValue(historicalData.metrics.revenue))
  \/ Le(lastValue(historicalData.metrics.revenue), Zero)

\* result is the refusal for want of a base revenue
RejectedForRevenue(result) ==
  /\ result.valid = FALSE
  /\ \E i \in 1..Len(result.errors) : result.errors[i] = NoBaseRevenue
  /\ "forecast" \notin DOMAIN result

\* C20: with historical data loaded and WACC above the terminal growth rate, a
\* base-year revenue that is missing, zero or negative makes calculateDCF return
\* valid = false with the base-revenue error and no forecast.
C20_BaseRevenueRequired ==
  \A i \in 1..Len(calls) :
    (/\ calls[i].fn = "calculateDCF"
     /\ calls[i].historicalData.k = "obj"
     /\ Gt(calls[i].inputs.wacc, calls[i].inputs.terminalGrowth)
     /\ BaseRevenueUnusable(calls[i].historicalData))
      => RejectedForRevenue(calls[i].after.dcf)

\* The same for a base-year revenue that is missing or zero
RefusesMissingOrZeroRevenue ==
  \A i \in 1..Len(calls) :
    (/\ calls[i].fn = "calculateDCF"
     /\ calls[i].historicalData.k = "obj"
     /\ Gt(calls[i].inputs.wacc, calls[i].inputs.terminalGrowth)
     /\ \/ ~NotNullish(lastValue(calls[i].historicalData.metrics.revenue))
        \/ lastValue(calls[i].historicalData.metrics.revenue) = Zero)
      => RejectedForRevenue(calls[i].after.dcf)

\* ------------------------------------------------------------------------
\* Properties of the engine called on its own
\* ------------------------------------------------------------------------

\* calculateDCF or calculateDCFPure has returned
HasEngineResult ==
  probe.fn \in {"calculateDCF", "calculateDCFPure"} /\ probe.pc = "returned"

\* C21: with forecastYears < 1, calculateDCF and calculateDCFPure return a
\* result that is not valid.
C21_NoForecastYearsFails ==
  HasEngineResult /\ Lt(probe.inputs.forecastYears, One) => ~probe.result.valid

\* The enterprise value and the equity value of a result of either function
ResultEnterpriseValue(fn, result) ==
  IF fn = "calculateDCF" THEN result.summary.enterpriseValue ELSE result.enterpriseValue

ResultEquityValue(fn, result) ==
  IF fn = "calculateDCF" THEN result.summary.equityValue ELSE result.equityValue

\* Every bridge term of the assumptions is a number
BridgeTermsSet(inp) ==
  \A key \in {"netDebt", "preferredEquity", "minorityInterest", "cashAndEquiv"} :
    inp[key].k = "num"

BridgeKeys == {"netDebt", "preferredEquity", "minorityInterest", "cashAndEquiv"}

\* The term, or 0 where the assumptions do not have it
TermOrZero(inp, key) == IF NotNullish(inp[key]) THEN inp[key] ELSE Zero

\* The result is valid and its equity value is the bridge with 0 for each
\* absent term
BridgesAbsentAsZero(fn, inp, result) ==
  /\ result.valid
  /\ ResultEquityValue(fn, result)
       = Add(Sub(Sub(Sub(ResultEnterpriseValue(fn, result), TermOrZero(inp, "netDebt")),
                     TermOrZero(inp, "preferredEquity")),
                 TermOrZero(inp, "minorityInterest")),
             TermOrZero(inp, "cashAndEquiv"))

\* C23: when netDebt, preferredEquity, minorityInterest or cashAndEquiv is
\* absent from the assumptions, the result of a forecast of one year or more is
\* valid and its equity value is the bridge with 0 in place of each absent term.
C23_AbsentTermsAreZero ==
  (/\ HasEngineResult
   /\ Ge(probe.inputs.forecastYears, One)
   /\ \E key \in BridgeKeys : ~NotNullish(probe.inputs[key]))
    => BridgesAbsentAsZero(probe.fn, probe.inputs, probe.result)

\* The same where the absent terms are null, or the preferred equity undefined
AbsentAsNullIsZero ==
  (/\ HasEngineResult
   /\ Ge(probe.inputs.forecastYears, One)
   /\ \A key \in BridgeKeys \ {"preferredEquity"} : probe.inputs[key] # Undefined)
    => BridgesAbsentAsZero(probe.fn, probe.inputs, probe.result)

ForecastArrays == {"revenue", "ebit", "nopat", "capex", "da", "nwcDelta", "fcf", "pvFCF"}

\* revenue[i - 1], the base revenue before the first year (years from 1)
RevenueBefore(forecast, historicalData, i) ==
  IF i = 1 THEN lastValue(historicalData.metrics.revenue) ELSE forecast.revenue[i - 1]

\* The relations of year i of a forecast
YearAsSpecified(inp, historicalData, forecast, i) ==
  /\ forecast.revenue[i]
       = Mul(RevenueBefore(forecast, historicalData, i), Add(One, inp.revenueGrowth))
  /\ forecast.nwcDelta[i]
       = Mul(Sub(forecast.revenue[i], RevenueBefore(forecast, historicalData, i)), inp.nwcPct)
  /\ forecast.da[i] = IF NotNullish(inp.daPct) THEN Mul(forecast.revenue[i], inp.daPct)
                      ELSE Mul(forecast.capex[i], Lit(8, -1))
  /\ forecast.fcf[i]
       = Sub(Sub(Add(forecast.nopat[i], forecast.da[i]), forecast.capex[i]),
             forecast.nwcDelta[i])

ResultIrr(fn, result) == IF fn = "calculateDCF" THEN result.summary.irr ELSE result.irr

\* The share count is set: the implied price is computed
SharesSet(inp) == Truthy(inp.sharesOutstanding) /\ Gt(inp.sharesOutstanding, Zero)

\* C26: in a valid result for assumptions without a share count, irr is null
\* or undefined.
C26_NoIrrWithoutShares ==
  HasEngineResult /\ probe.result.valid /\ ~SharesSet(probe.inputs)
    => ~NotNullish(ResultIrr(probe.fn, probe.result))

\* ------------------------------------------------------------------------
\* Properties of buildDefaultInputs called on its own
\* ------------------------------------------------------------------------

\* C25: buildDefaultInputs leaves every field the caller has set (neither
\* undefined nor null) at its value, and a second call with the same historical
\* data changes nothing.
C25_DefaultsFillOnlyUnset ==
  probe.fn = "buildDefaultInputs" /\ probe.n >= 1
    => /\ \A key \in InputKeys :
            NotNullish(probe.callerInputs[key]) => inputs[key] = probe.callerInputs[key]
       /\ probe.n = 2 => inputs = probe.afterFirst

\* Called twice on inputs with a field set to 0 and a field left out, which
\* the first call filled
C25_Witness ==
  /\ probe.fn = "buildDefaultInputs"
  /\ probe.n = 2
  /\ probe.callerInputs.currentPrice = Zero
  /\ probe.callerInputs.netDebt = Zero
  /\ probe.callerInputs.forecastYears = Undefined
  /\ inputs.forecastYears = Lit(5, 0)
  /\ inputs.netDebt = Zero

\* ------------------------------------------------------------------------
\* Properties of the WACC field
\* ------------------------------------------------------------------------

\* The WACC the text of the WACC field stands for
TypedWacc == parseInputValue(WaccField, fields.value.wacc)

\* The WACC of the components of assumptions inp
ComponentWacc(inp) ==
  WaccFromComponents(inp.costOfEquity, inp.equityWeight, inp.costOfDebt, inp.debtWeight,
                     inp.taxRate)

\* C27: when recalculate() runs while the WACC field holds a WACC that is
\* 0.0005 or more away from the WACC of the components, the evaluation it makes
\* uses the WACC of the field.
C27_TypedWaccIsUsed ==
  [][(/\ recalcTimer /\ ~recalcTimer'
      /\ TypedWacc # Null
      /\ Ge(MathAbs(Sub(TypedWacc, ComponentWacc(calls'[1].inputs))), Lit(5, -4)))
       => calls'[1].inputs.wacc = TypedWacc]_vars

\* ------------------------------------------------------------------------
\* Properties of the debounced recalculation
\* ------------------------------------------------------------------------

\* _recalcTimer is set exactly while a timer of recalculateDebounced is pending
TimerIsPending == recalcTimer <=> timing.recalcIn >= 0

\* A step in which recalculate() runs
RecalculateRan == recalcTimer /\ ~recalcTimer'

\* recalculate() runs only 200 ms after the last input event, and once
RunsOnceAfterTheBurst ==
  RecalculateRan => timing.sinceInput = RecalcDelay /\ timing.runs = 0

\* C29 as stated: a burst is a run of input events less than 200 ms apart.
\* recalculate() runs only 200 ms after the last event of a burst and once;
\* when an event opens the next burst (200 ms or more after the last one) the
\* burst before it has had its run; and every input event is eventually
\* followed by a recalculate().
C29_DebounceAsStated ==
  /\ [][/\ RunsOnceAfterTheBurst
        /\ InputEvent /\ timing.sinceInput >= RecalcDelay => timing.runs = 1]_vars
  /\ recalcTimer ~> ~recalcTimer

\* C29 as amended: recalculate() runs only 200 ms after the last input event
\* and once; a burst that no input event follows before its timer has fired
\* has had its run; and every input event is eventually followed by a
\* recalculate() or by another input event (time has gone on since the event,
\* and then recalculate() has run or an input event is the last thing that
\* happened).
C29_DebouncedRecalculation ==
  /\ [][/\ RunsOnceAfterTheBurst
        /\ InputEvent /\ timing.sinceInput > RecalcDelay => timing.runs = 1]_vars
  /\ (recalcTimer /\ timing.sinceInput > 0) ~> (~recalcTimer \/ timing.sinceInput = 0)

\* A burst of several input events has had its one run, 200 ms after its last
C29_Witness ==
  /\ timing.burst = 2
  /\ timing.runs = 1
  /\ timing.sinceInput = RecalcDelay
  /\ ~recalcTimer

\* ------------------------------------------------------------------------
\* Properties of the throttled slider handling
\* ------------------------------------------------------------------------

\* What fn has stored in state.inputs is what the sliders show
SlidersAreRead ==
  \A key \in SliderKeys \ {"exitMultiple"} : inputs[key] = sliders.value[key]

\* C30: every call of the throttled _onSliderChange is followed by a run of fn
\* at or after the time of the call, so that once fn has run and no call awaits
\* its run the inputs hold the last position of every slider; and two runs of
\* fn are at least ms = 80 milliseconds apart.
C30_ThrottledSliders ==
  /\ [](timing.gap = -1 \/ timing.gap >= ThrottleMs)
  /\ [](timing.sinceRun # -1 /\ ~timing.owed => SlidersAreRead)
  /\ timing.owed ~> ~timing.owed

\* A call made within 80 ms of the last run of fn has had its run from the
\* timer, 80 ms after that run
C30_Witness ==
  /\ timing.gap = ThrottleMs
  /\ timing.sinceRun = 0
  /\ ~timing.owed
  /\ sliders.value.wacc = Lit(10, -2)
  /\ inputs.wacc = Lit(10, -2)

====
